---- MODULE Spec2Model ----
(***************************************************************************)
(* The store-backed session relay of src/server.js: Socket.IO handlers     *)
(* (join:session, create:session, content:update, user:updateName,         *)
(* leave:session) over a MongoDB collection of Session documents (the      *)
(* mongoose model at the end of src/server.js).                            *)
(*                                                                         *)
(* Scheduling.  Node runs one handler segment at a time; a handler         *)
(* suspends at every `await` of a store call.  Each handler is therefore   *)
(* cut at its awaits: the segment up to the await issues the store         *)
(* operation (st = "pending"), the database applies it atomically          *)
(* (the Store steps, st = "ready"), and the continuation runs later (the    *)
(* Resume steps).                                                          *)
(* Operations of different handlers go to the store through a connection   *)
(* pool, so the store may apply them and answer them in any order.         *)
(*                                                                         *)
(* Mongoose.  findOne returns a private copy of the document.  save() of a *)
(* loaded document sends an update of the paths the handler modified (a    *)
(* path assigned the value it already had is not modified), filtered by    *)
(* _id; an array push is sent as $push and increments the version key __v  *)
(* without checking it; an assignment of a whole array is sent as $set     *)
(* with a check and an increment of __v; an assignment inside an array     *)
(* element is sent as a positional $set with a check of __v.  An update    *)
(* that matches no document makes save() throw.  Every handler stamps      *)
(* lastActivity before saving, so every save sends an update.  save()      *)
(* validates the document first and throws, sending nothing, when a path   *)
(* declared `required: true` holds the empty string.                       *)
(*                                                                         *)
(* The in-memory relay of src/unnamed/part_001 (part_000 is the same but   *)
(* for its join announcement) is modelled by the Mem actions over the      *)
(* variable sessionContent; the store-backed relay never touches it.       *)
(*                                                                         *)
(* The browser client of src/unnamed/part_002 is modelled by the client    *)
(* actions over the variable client.  A connection carries the client's    *)
(* intents to the relay and the relay's events to the client in the order  *)
(* they were emitted.                                                      *)
(***************************************************************************)
EXTENDS Integers, Sequences, FiniteSets, TLC

\* ---------------------------------------------------------------- bounds
\* Number of intents the relay receives in one run.
MaxHandlers == 2
\* Number of Session documents ever inserted (their _id values).
MaxDocs == 2
\* Number of colliding draws of one generateConnectionCode call that are
\* followed further (the code's own limit is maxAttempts).
MaxRetries == 1
\* Number of intents the in-memory relay receives in one run.
MaxMemHandlers == 3
\* Number of edits a user makes in one client.
MaxEdits == 3

\* ------------------------------------------------------- configuration
\* CONNECTION_CODE_LENGTH and CONNECTION_CODE_CHARS of the environment.
CODE_LENGTH == 1
CODE_CHARS == <<"A", "B">>
maxAttempts == 100
MAX_CONTENT_SIZE == 1024 * 1024

\* Live transport connections (socket ids).
Conns == {"s1", "s2", "s3"}
\* Durable client identities presented in handshakes.
ClientIds == {"ca", "cb", "cc"}

\* Names are sequences of characters; a socket id stands for its own last
\* four characters.
MAX_NAME_LENGTH == 32
EmptyName == <<>>
createDefaultName(socketId) == <<"U", "s", "e", "r", " ", socketId>>

NoSession == <<"null">>

\* Texts a client sends: the string and its length.
Text(s, n) == [str |-> s, length |-> n]
EmptyText == Text("", 0)
Texts == {Text("A", 1), Text("B", 1)}

\* typeof v === "string"
IsString(v) == "str" \in DOMAIN v

\* Codes the generator can draw: CODE_LENGTH characters of CODE_CHARS.
Codes == [1..CODE_LENGTH -> {CODE_CHARS[i] : i \in 1..Len(CODE_CHARS)}]

\* Strings a client sends as a join code.
JoinInputs == {<<"A">>, <<"a">>, <<"B">>, <<"A", "B">>}

\* A conversion that keeps the case of every character.
keepCase(s) == s

toUpperCase(s) ==
    [i \in 1..Len(s) |->
        CASE s[i] = "a" -> "A"
          [] s[i] = "b" -> "B"
          [] OTHER -> s[i]]

\* Values a client sends as the argument of typing: a JavaScript value is
\* its type and its text.
Value(type, val) == [type |-> type, val |-> val]
TypingInputs ==
    {Value("boolean", "true"), Value("boolean", "false"),
     Value("number", "0"), Value("number", "1"),
     Value("string", ""), Value("string", "false"),
     Value("undefined", "")}

\* Boolean(x): false for false, 0, NaN, "", null and undefined.
Boolean(x) ==
    CASE x.type = "boolean" -> x.val = "true"
      [] x.type = "number" -> x.val \notin {"0", "-0", "NaN"}
      [] x.type = "string" -> x.val # ""
      [] OTHER -> FALSE

\* Names a client sends with user:updateName.
NameInputs == {<<"Z", "e", "d">>, <<" ">>}

RECURSIVE trim(_)
trim(s) ==
    IF s = <<>> THEN s
    ELSE IF Head(s) = " " THEN trim(Tail(s))
    ELSE IF s[Len(s)] = " " THEN trim(SubSeq(s, 1, Len(s) - 1))
    ELSE s

\* ---------------------------------------------------------------- state
VARIABLES
    db,              \* the Session collection: _id -> document
    nextId,          \* the next _id the store hands out
    rooms,           \* io.sockets.adapter.rooms: code -> set of socket ids
    currentSession,  \* each connection's closure variable currentSession
    cid,             \* each connection's socket.data.clientId
    name,            \* each connection's socket.data.displayName
    hs,              \* the handlers started in this run, in order of receipt
    outbox,          \* the events emitted to each connection in this run
    sessionContent,  \* the in-memory relay's Map sessionContent
    client           \* the browser client (the App component) of each connection

vars == <<db, nextId, rooms, currentSession, cid, name, hs, outbox,
          sessionContent, client>>

\* The variables of the relay.
relay == <<db, nextId, rooms, currentSession, cid, name, hs, outbox,
           sessionContent>>

sanitizeDisplayName(raw, fallback) ==
    IF trim(raw) = <<>> THEN fallback
    ELSE SubSeq(trim(raw), 1,
                IF Len(trim(raw)) < MAX_NAME_LENGTH THEN Len(trim(raw))
                ELSE MAX_NAME_LENGTH)

\* ------------------------------------------------------------ documents
DocIds == 1..MaxDocs

NoDoc ==
    [exists |-> FALSE, code |-> <<>>, content |-> EmptyText,
     creatorSocketId |-> "", creatorClientId |-> "", creatorName |-> EmptyName,
     joinedUsers |-> <<>>, hasGuestJoined |-> FALSE, isActive |-> FALSE,
     lastActivity |-> 0, v |-> 0, writer |-> 0]

\* new Session({...}) of create:session, with the schema's defaults.
NewSession(code, c) ==
    [exists |-> TRUE, code |-> code, content |-> EmptyText,
     creatorSocketId |-> c, creatorClientId |-> cid[c],
     creatorName |-> name[c],
     joinedUsers |-> <<>>, hasGuestJoined |-> FALSE, isActive |-> TRUE,
     lastActivity |-> 0, v |-> 0, writer |-> 0]

\* The validators of sessionSchema that run before a save: the paths declared
\* `required: true` hold a non-empty string.
Valid(d) ==
    /\ d.code # <<>>
    /\ d.creatorSocketId # ""
    /\ d.creatorClientId # ""
    /\ \A i \in 1..Len(d.joinedUsers) : d.joinedUsers[i].clientId # ""

\* A store operation a handler is waiting for.
NoOp ==
    [type |-> "none", code |-> <<>>, mod |-> {}, push |-> <<>>, pos |-> 0,
     posMod |-> {}, whereV |-> FALSE, incV |-> FALSE]
FindOp(code, activeOnly) ==
    [NoOp EXCEPT !.type = IF activeOnly THEN "findActive" ELSE "find",
                 !.code = code]
InsertOp == [NoOp EXCEPT !.type = "insert"]
DeleteOp == [NoOp EXCEPT !.type = "delete"]
\* The update of a save(): the top-level paths it sets (mod), the entries it
\* pushes to joinedUsers (push), the joinedUsers element (pos) whose paths
\* (posMod) it sets, and whether it checks (whereV) and increments (incV) __v.
SaveOp(mod, push, pos, posMod, whereV, incV) ==
    [NoOp EXCEPT !.type = "save", !.mod = mod, !.push = push, !.pos = pos,
                 !.posMod = posMod, !.whereV = whereV, !.incV = incV]

\* The paths of `cur` that differ from the loaded copy `old`.
Modified(old, cur, fields) == {f \in fields : old[f] # cur[f]}

IndexOf(users, clientId) ==
    IF \E i \in 1..Len(users) : users[i].clientId = clientId
    THEN CHOOSE i \in 1..Len(users) :
            /\ users[i].clientId = clientId
            /\ \A j \in 1..(i - 1) : users[j].clientId # clientId
    ELSE 0

\* sessionSchema.methods.getParticipants
getParticipants(d) ==
    (IF d.creatorSocketId # "" /\ d.isActive
     THEN <<[socketId |-> d.creatorSocketId, clientId |-> d.creatorClientId,
             name |-> d.creatorName, isCreator |-> TRUE]>>
     ELSE <<>>)
    \o [i \in 1..Len(d.joinedUsers) |->
          [socketId |-> d.joinedUsers[i].socketId,
           clientId |-> d.joinedUsers[i].clientId,
           name |-> d.joinedUsers[i].name, isCreator |-> FALSE]]

\* addOrUpdateUser without the creator branch: every client is a guest.
addOrUpdateUserGuestOnly(d, clientId, sid, nm) ==
    LET i == IndexOf(d.joinedUsers, clientId) IN
    IF i # 0
    THEN LET cur == [d EXCEPT !.joinedUsers[i].socketId = sid,
                              !.joinedUsers[i].name =
                                  IF nm # EmptyName THEN nm ELSE @]
         IN [doc |-> cur,
             op |-> SaveOp({}, <<>>, i,
                           Modified(d.joinedUsers[i], cur.joinedUsers[i],
                                    {"socketId", "name"})
                               \cup {"lastSeenAt"},
                           TRUE, FALSE)]
    ELSE LET e == [socketId |-> sid, clientId |-> clientId, name |-> nm]
             cur == [d EXCEPT !.hasGuestJoined = TRUE,
                              !.joinedUsers = Append(@, e)]
         IN [doc |-> cur,
             op |-> SaveOp(Modified(d, cur, {"hasGuestJoined"}),
                           <<e>>, 0, {}, FALSE, TRUE)]

\* sessionSchema.methods.addOrUpdateUser: the local document after the
\* method's assignments, and the update its save() sends.
addOrUpdateUser(d, clientId, sid, nm) ==
    IF d.creatorClientId = clientId
    THEN LET cur == [d EXCEPT !.creatorSocketId = sid, !.isActive = TRUE,
                              !.creatorName = IF nm # EmptyName THEN nm ELSE @]
         IN [doc |-> cur,
             op |-> SaveOp(Modified(d, cur,
                              {"creatorSocketId", "isActive", "creatorName"}),
                           <<>>, 0, {}, FALSE, FALSE)]
    ELSE LET i == IndexOf(d.joinedUsers, clientId) IN
         IF i # 0
         THEN LET cur == [d EXCEPT !.joinedUsers[i].socketId = sid,
                                   !.joinedUsers[i].name =
                                       IF nm # EmptyName THEN nm ELSE @]
              IN [doc |-> cur,
                  op |-> SaveOp({}, <<>>, i,
                                Modified(d.joinedUsers[i], cur.joinedUsers[i],
                                         {"socketId", "name"})
                                    \cup {"lastSeenAt"},
                                TRUE, FALSE)]
         ELSE LET e == [socketId |-> sid, clientId |-> clientId, name |-> nm]
                  cur == [d EXCEPT !.hasGuestJoined = TRUE,
                                   !.joinedUsers = Append(@, e)]
              IN [doc |-> cur,
                  op |-> SaveOp(Modified(d, cur, {"hasGuestJoined"}),
                                <<e>>, 0, {}, FALSE, TRUE)]

Filter(users, clientId) ==
    SelectSeq(users, LAMBDA u : u.clientId # clientId)

\* removeUserByClientId that always saves and never deletes.
removeUserNeverDelete(d, clientId) ==
    LET removingCreator == d.creatorClientId = clientId
        cur == IF removingCreator
               THEN [d EXCEPT !.isActive = FALSE, !.creatorName = EmptyName,
                              !.creatorSocketId = ""]
               ELSE [d EXCEPT !.joinedUsers = Filter(@, clientId)]
    IN IF removingCreator
       THEN [doc |-> cur,
             op |-> SaveOp(Modified(d, cur,
                              {"isActive", "creatorName", "creatorSocketId"}),
                           <<>>, 0, {}, FALSE, FALSE)]
       ELSE IF cur.joinedUsers # d.joinedUsers
       THEN [doc |-> cur,
             op |-> SaveOp({"joinedUsers"}, <<>>, 0, {}, TRUE, TRUE)]
       ELSE [doc |-> cur, op |-> SaveOp({}, <<>>, 0, {}, FALSE, FALSE)]

\* sessionSchema.methods.removeUserByClientId: the local document after the
\* method's assignments, and the deleteOne() or save() it awaits.
removeUserByClientId(d, clientId) ==
    LET removingCreator == d.creatorClientId = clientId
        cur == IF removingCreator
               THEN [d EXCEPT !.isActive = FALSE, !.creatorName = EmptyName,
                              !.creatorSocketId = ""]
               ELSE [d EXCEPT !.joinedUsers = Filter(@, clientId)]
    IN IF removingCreator /\ ~d.hasGuestJoined /\ Len(cur.joinedUsers) = 0
       THEN [doc |-> cur, op |-> DeleteOp]
       ELSE IF removingCreator
       THEN [doc |-> cur,
             op |-> SaveOp(Modified(d, cur,
                              {"isActive", "creatorName", "creatorSocketId"}),
                           <<>>, 0, {}, FALSE, FALSE)]
       ELSE IF cur.joinedUsers # d.joinedUsers
       THEN [doc |-> cur,
             op |-> SaveOp({"joinedUsers"}, <<>>, 0, {}, TRUE, TRUE)]
       ELSE [doc |-> cur, op |-> SaveOp({}, <<>>, 0, {}, FALSE, FALSE)]

\* sessionSchema.methods.updateUserName: the local document after the
\* method's assignments, and the update its save() sends.
updateUserName(d, clientId, nm) ==
    IF d.creatorClientId = clientId
    THEN LET cur == [d EXCEPT !.creatorName = nm]
         IN [doc |-> cur,
             op |-> SaveOp(Modified(d, cur, {"creatorName"}),
                           <<>>, 0, {}, FALSE, FALSE)]
    ELSE LET i == IndexOf(d.joinedUsers, clientId) IN
         IF i # 0 /\ d.joinedUsers[i].name # nm
         THEN [doc |-> [d EXCEPT !.joinedUsers[i].name = nm],
               op |-> SaveOp({}, <<>>, i, {"name"}, TRUE, FALSE)]
         ELSE [doc |-> d, op |-> SaveOp({}, <<>>, 0, {}, FALSE, FALSE)]

\* The stored document `d` after the update `op` of a save() of the local
\* document `cur`.
ApplySave(d, cur, op) ==
    [d EXCEPT
       !.content = IF "content" \in op.mod THEN cur.content ELSE @,
       !.creatorSocketId =
           IF "creatorSocketId" \in op.mod THEN cur.creatorSocketId ELSE @,
       !.creatorName = IF "creatorName" \in op.mod THEN cur.creatorName ELSE @,
       !.isActive = IF "isActive" \in op.mod THEN cur.isActive ELSE @,
       !.hasGuestJoined =
           IF "hasGuestJoined" \in op.mod THEN cur.hasGuestJoined ELSE @,
       !.joinedUsers =
           IF "joinedUsers" \in op.mod THEN cur.joinedUsers
           ELSE IF op.pos # 0 /\ op.pos <= Len(@)
           THEN [@ EXCEPT
                   ![op.pos].socketId =
                       IF "socketId" \in op.posMod
                       THEN cur.joinedUsers[op.pos].socketId ELSE @,
                   ![op.pos].name =
                       IF "name" \in op.posMod
                       THEN cur.joinedUsers[op.pos].name ELSE @]
           ELSE @ \o op.push,
       !.v = IF op.incV THEN @ + 1 ELSE @]

Handlers == 1..Len(hs)
HandlerIds == 1..MaxHandlers

\* The stored document with this code, if any.
DocByCode(code) ==
    IF \E i \in DocIds : db[i].exists /\ db[i].code = code
    THEN db[CHOOSE i \in DocIds : db[i].exists /\ db[i].code = code]
    ELSE NoDoc

\* A handler: its socket, intent and argument, where it stands (pc, st), the
\* code it works on, the _id and the local copy of the document it loaded,
\* the store operation it awaits and whether that threw.  `seen` and `raw`
\* are history fields: the stored document of that code when the intent
\* arrived, and the argument as the client sent it.  `res` is the body of
\* the response of an HTTP request handler.
Handler(c, kind, arg) ==
    [conn |-> c, kind |-> kind, arg |-> arg, pc |-> "done", st |-> "idle",
     code |-> NoSession, id |-> 0, doc |-> NoDoc, op |-> NoOp,
     err |-> FALSE, attempts |-> 0, seen |-> NoDoc, raw |-> arg,
     res |-> <<>>]

Event(type, val, h) == [type |-> type, val |-> val, by |-> h]

\* The connection has not disconnected: a closed socket delivers no intent.
Live(c) ==
    \A h \in Handlers : ~(hs[h].kind = "disconnect" /\ hs[h].conn = c)

\* An emit that reaches every connection.
EmitEveryone(ob, c, e) ==
    [k \in Conns |-> Append(ob[k], e)]

\* socket.emit
Emit(ob, c, e) == [ob EXCEPT ![c] = Append(@, e)]
\* an emit to every socket of the set S
EmitAll(ob, S, e) ==
    [c \in Conns |-> IF c \in S THEN Append(ob[c], e) ELSE ob[c]]

\* getRoomInfo(sessionCode).sockets
Members(rs, code) == IF code \in DOMAIN rs THEN rs[code] ELSE {}

\* notifyRoomUsers: the room-wide emit, then one emit per socket of the room.
notifyRoomUsers(ob, rs, code, e) ==
    IF Members(rs, code) # {}
    THEN EmitAll(EmitAll(ob, Members(rs, code), e), Members(rs, code), e)
    ELSE ob

\* socket.to(code).emit: every socket of the room but the sender.
Broadcast(ob, rs, c, code, e) == EmitAll(ob, Members(rs, code) \ {c}, e)

\* socket.leave / socket.join
Leave(rs, c, code) ==
    IF code \in DOMAIN rs THEN [rs EXCEPT ![code] = @ \ {c}] ELSE rs
Join(rs, c, code) == [rs EXCEPT ![code] = @ \cup {c}]

\* The App component when it mounts: the state showTypingPad and
\* connectionCode, the refs localTypingRef and typingTimeoutRef (0 for
\* undefined, else the id of the timer set last), the timers that are
\* pending, and the one-time join:success listeners (the showPadOnJoin of
\* each).  `sent` holds the intents the client has emitted, in order, and
\* `handled` counts the events of the connection's outbox that the client's
\* listeners have handled.
App ==
    [showTypingPad |-> FALSE, connectionCode |-> <<>>, once |-> <<>>,
     localTypingRef |-> FALSE, typingTimeoutRef |-> 0, timers |-> {},
     sent |-> <<>>, handled |-> 0]

\* new Map(): no code has an entry.
NoEntry == [has |-> FALSE, text |-> EmptyText]
NoContent == [code \in Codes |-> NoEntry]

TypeOK ==
    /\ DOMAIN db = DocIds
    /\ cid \in [Conns -> ClientIds]
    /\ nextId \in 1..(MaxDocs + 1)
    /\ rooms \in [Codes -> SUBSET Conns]
    /\ currentSession \in [Conns -> Codes \cup {NoSession}]
    /\ Len(hs) <= MaxHandlers

Init ==
    /\ db = [i \in DocIds |-> NoDoc]
    /\ nextId = 1
    /\ rooms = [code \in Codes |-> {}]
    /\ currentSession = [c \in Conns |-> NoSession]
    /\ cid = [c \in Conns |-> IF c = "s2" THEN "cb" ELSE "ca"]
    /\ name = [c \in Conns |-> createDefaultName(c)]
    /\ hs = <<>>
    /\ outbox = [c \in Conns |-> <<>>]
    /\ sessionContent = NoContent
    /\ client = [c \in Conns |-> App]

\* ------------------------------------------------------------ the store
Pending(h, types) ==
    /\ h \in Handlers
    /\ hs[h].st = "pending"
    /\ hs[h].op.type \in types

\* A lookup that takes no account of isActive.
MatchingAnyState(op) ==
    {i \in DocIds : db[i].exists /\ db[i].code = op.code}

\* Session.findOne({code}) and Session.findOne({code, isActive: true}).
Matching(op) ==
    {i \in DocIds : /\ db[i].exists
                    /\ db[i].code = op.code
                    /\ (op.type = "findActive" => db[i].isActive)}

StoreFind(h) ==
    /\ Pending(h, {"find", "findActive"})
    /\ IF Matching(hs[h].op) = {}
       THEN hs' = [hs EXCEPT ![h].st = "ready", ![h].id = 0, ![h].doc = NoDoc]
       ELSE \E i \in Matching(hs[h].op) :
               hs' = [hs EXCEPT ![h].st = "ready", ![h].id = i,
                                ![h].doc = db[i]]
    /\ UNCHANGED <<client, cid, sessionContent, name, db, nextId, rooms, currentSession, outbox>>

\* A collection without the unique index: no insert fails.
NoUniqueIndex(d) == FALSE

\* The unique index of sessionSchema.code: an insert of a code that a stored
\* document has fails with a duplicate-key error.
DuplicateKey(d) == \E i \in DocIds : db[i].exists /\ db[i].code = d.code

\* save() of a new document.
StoreInsert(h) ==
    /\ Pending(h, {"insert"})
    /\ IF DuplicateKey(hs[h].doc)
       THEN /\ hs' = [hs EXCEPT ![h].st = "ready", ![h].err = TRUE]
            /\ UNCHANGED <<db, nextId>>
       ELSE /\ nextId \in DocIds
            /\ db' = [db EXCEPT ![nextId] =
                                 [hs[h].doc EXCEPT !.writer = h]]
            /\ nextId' = nextId + 1
            /\ hs' = [hs EXCEPT ![h].st = "ready", ![h].id = nextId]
    /\ UNCHANGED <<client, cid, sessionContent, name, rooms, currentSession, outbox>>

\* Whether the update of a save() matches the stored document: the _id
\* exists and, when the update carries the version, __v is the loaded one.
SaveMatches(d, cur, op) == d.exists /\ (op.whereV => d.v = cur.v)

\* save() of a loaded document: validation, then the update, which carries
\* the lastActivity the handler stamped.  `writer` is a history field: the
\* handler whose insert or save wrote the document last.
StoreSave(h) ==
    /\ Pending(h, {"save"})
    /\ IF Valid(hs[h].doc) /\ SaveMatches(db[hs[h].id], hs[h].doc, hs[h].op)
       THEN /\ db' = [db EXCEPT ![hs[h].id] =
                         [ApplySave(@, hs[h].doc, hs[h].op)
                            EXCEPT !.lastActivity = hs[h].doc.lastActivity,
                                   !.writer = h]]
            /\ hs' = [hs EXCEPT ![h].st = "ready"]
       ELSE /\ hs' = [hs EXCEPT ![h].st = "ready", ![h].err = TRUE]
            /\ UNCHANGED db
    /\ UNCHANGED <<client, cid, sessionContent, name, nextId, rooms, currentSession, outbox>>

\* deleteOne() of a loaded document.
StoreDelete(h) ==
    /\ Pending(h, {"delete"})
    /\ db' = [db EXCEPT ![hs[h].id] = NoDoc]
    /\ hs' = [hs EXCEPT ![h].st = "ready"]
    /\ UNCHANGED <<client, cid, sessionContent, name, nextId, rooms, currentSession, outbox>>

Ready(h, kind, pc) ==
    /\ h \in Handlers
    /\ hs[h].kind = kind
    /\ hs[h].pc = pc
    /\ hs[h].st = "ready"

Finish(h) == [hs EXCEPT ![h].pc = "done", ![h].st = "idle"]
\* new Date() and Date.now(): the time now, later than every time stamped
\* so far on a stored document or on a handler's copy.
Stamps ==
    {db[i].lastActivity : i \in DocIds}
       \cup {hs[h].doc.lastActivity : h \in Handlers}
Now == 1 + CHOOSE t \in Stamps : \A u \in Stamps : u <= t

\* The handler stamps lastActivity on its copy and awaits the store call.
Await(h, pc, doc, op) ==
    [hs EXCEPT ![h].pc = pc, ![h].st = "pending",
               ![h].doc = [doc EXCEPT !.lastActivity = Now], ![h].op = op]

\* join:session leaving the caller's previous room before the lookup.
RecvJoinLeaveFirst(c, input) ==
    /\ Len(hs) < MaxHandlers
    /\ Live(c)
    /\ LET h == Len(hs) + 1
           sessionCode == trim(toUpperCase(input))
       IN IF Len(input) # CODE_LENGTH
          THEN /\ hs' = Append(hs, Handler(c, "join", input))
               /\ outbox' = Emit(outbox, c, Event("join:error", "invalid", h))
               /\ rooms' = rooms
          ELSE /\ hs' = Append(hs, [Handler(c, "join", input) EXCEPT
                                      !.pc = "find", !.st = "pending",
                                      !.code = sessionCode,
                                      !.seen = DocByCode(sessionCode),
                                      !.op = FindOp(sessionCode, TRUE)])
               /\ outbox' = outbox
               /\ rooms' = IF currentSession[c] # NoSession
                           THEN Leave(rooms, c, currentSession[c])
                           ELSE rooms
    /\ UNCHANGED <<client, cid, sessionContent, name, db, nextId, currentSession>>

\* --------------------------------------------------------- join:session
\* Lines 178-194: validation, then the await of Session.findOne.
RecvJoin(c, input) ==
    /\ Len(hs) < MaxHandlers
    /\ Live(c)
    /\ LET h == Len(hs) + 1
           sessionCode == trim(toUpperCase(input))
       IN IF Len(input) # CODE_LENGTH
          THEN /\ hs' = Append(hs, Handler(c, "join", input))
               /\ outbox' = Emit(outbox, c, Event("join:error", "invalid", h))
          ELSE /\ hs' = Append(hs, [Handler(c, "join", input) EXCEPT
                                      !.pc = "find", !.st = "pending",
                                      !.code = sessionCode,
                                      !.seen = DocByCode(sessionCode),
                                      !.op = FindOp(sessionCode, TRUE)])
               /\ outbox' = outbox
    /\ UNCHANGED <<client, cid, sessionContent, name, db, nextId, rooms, currentSession>>

\* Lines 196-211: not found, or leave the previous room and await
\* session.addOrUpdateUser.
ResumeJoinFound(h) ==
    /\ Ready(h, "join", "find")
    /\ LET c == hs[h].conn IN
       IF hs[h].id = 0
       THEN /\ hs' = Finish(h)
            /\ outbox' = Emit(outbox, c, Event("join:error", "notfound", h))
            /\ UNCHANGED rooms
       ELSE LET u == addOrUpdateUser(hs[h].doc, cid[c], c, name[c])
            IN /\ rooms' = IF currentSession[c] # NoSession
                           THEN Leave(rooms, c, currentSession[c])
                           ELSE rooms
               /\ hs' = Await(h, "save", u.doc, u.op)
               /\ outbox' = outbox
    /\ UNCHANGED <<client, cid, sessionContent, name, db, nextId, currentSession>>

\* user:joined sent to the joining socket alone.
JoinAnnounceCallerOnly(ob, rs, c, sessionCode, participants, h) ==
    LET totalUsers == Cardinality(Members(rs, sessionCode)) IN
    Emit(ob, c,
         Event(IF totalUsers >= 2 THEN "user:joined" ELSE "waiting:for:user",
               [roomSize |-> totalUsers, code |-> sessionCode,
                showPad |-> totalUsers >= 2, participants |-> participants],
               h))

\* Lines 223-249: with two or more sockets in the room, user:joined to the
\* whole room; otherwise waiting:for:user to the caller.
JoinAnnounce(ob, rs, c, sessionCode, participants, h) ==
    LET totalUsers == Cardinality(Members(rs, sessionCode)) IN
    IF totalUsers >= 2
    THEN notifyRoomUsers(ob, rs, sessionCode,
            Event("user:joined",
                  [roomSize |-> totalUsers, code |-> sessionCode,
                   showPad |-> TRUE, participants |-> participants], h))
    ELSE Emit(ob, c,
            Event("waiting:for:user",
                  [roomSize |-> totalUsers, code |-> sessionCode,
                   participants |-> participants], h))

\* The continuation of join:session taking the room size before
\* socket.join.
ResumeJoinSavedSizeBefore(h) ==
    /\ Ready(h, "join", "save")
    /\ LET c == hs[h].conn
           sessionCode == hs[h].code
           rs == Join(rooms, c, sessionCode)
           participants == getParticipants(hs[h].doc)
           ob1 == Emit(outbox, c, Event("content:sync", hs[h].doc.content, h))
           ob2 == Emit(ob1, c, Event("join:success", sessionCode, h))
       IN IF hs[h].err
          THEN /\ outbox' = Emit(outbox, c, Event("join:error", "failed", h))
               /\ UNCHANGED <<rooms, currentSession>>
          ELSE /\ rooms' = rs
               /\ currentSession' = [currentSession EXCEPT ![c] = sessionCode]
               /\ outbox' = JoinAnnounce(ob2, rooms, c, sessionCode,
                                          participants, h)
    /\ hs' = Finish(h)
    /\ UNCHANGED <<client, cid, sessionContent, name, db, nextId>>

\* Lines 213-253: socket.join, the caller's events, and the room-size branch;
\* or the catch block when the save threw.
ResumeJoinSaved(h) ==
    /\ Ready(h, "join", "save")
    /\ LET c == hs[h].conn
           sessionCode == hs[h].code
           rs == Join(rooms, c, sessionCode)
           participants == getParticipants(hs[h].doc)
           ob1 == Emit(outbox, c, Event("content:sync", hs[h].doc.content, h))
           ob2 == Emit(ob1, c, Event("join:success", sessionCode, h))
       IN IF hs[h].err
          THEN /\ outbox' = Emit(outbox, c, Event("join:error", "failed", h))
               /\ UNCHANGED <<rooms, currentSession>>
          ELSE /\ rooms' = rs
               /\ currentSession' = [currentSession EXCEPT ![c] = sessionCode]
               /\ outbox' = JoinAnnounce(ob2, rs, c, sessionCode,
                                          participants, h)
    /\ hs' = Finish(h)
    /\ UNCHANGED <<client, cid, sessionContent, name, db, nextId>>

\* ------------------------------------------------------- create:session
\* Documents that handlers still may insert.
CreatesInFlight ==
    Cardinality({h \in Handlers : hs[h].kind = "create" /\ hs[h].pc # "done"})

\* Lines 257-259 and 77-90: the first draw of generateConnectionCode and the
\* await of its Session.findOne.
RecvCreate(c, code) ==
    /\ Len(hs) < MaxHandlers
    /\ Live(c)
    /\ nextId + CreatesInFlight <= MaxDocs
    /\ hs' = Append(hs, [Handler(c, "create", <<>>) EXCEPT
                           !.pc = "gen", !.st = "pending", !.code = code,
                           !.op = FindOp(code, FALSE)])
    /\ UNCHANGED <<client, cid, sessionContent, name, db, nextId, rooms, currentSession, outbox>>

\* The loop of generateConnectionCode going on for one draw more than
\* maxAttempts.
RetryOnceMore(h, code, limit) ==
    /\ Ready(h, "create", "gen")
    /\ hs[h].id # 0
    /\ hs[h].attempts < limit + 1
    /\ IF hs[h].attempts + 1 < maxAttempts + 1
       THEN /\ hs' = [hs EXCEPT ![h].attempts = @ + 1, ![h].st = "pending",
                                ![h].code = code, ![h].op = FindOp(code, FALSE)]
            /\ outbox' = outbox
       ELSE /\ hs' = Finish(h)
            /\ outbox' = Emit(outbox, hs[h].conn,
                              Event("join:error", "create failed", h))
    /\ UNCHANGED <<client, cid, sessionContent, name, db, nextId, rooms, currentSession>>

\* Lines 91-99 and 83-90: the code is taken, so draw again, or fail after
\* maxAttempts draws (the throw, caught at lines 297-300).  Followed while
\* the handler has had fewer than `limit` collisions.
Retry(h, code, limit) ==
    /\ Ready(h, "create", "gen")
    /\ hs[h].id # 0
    /\ hs[h].attempts < limit
    /\ IF hs[h].attempts + 1 < maxAttempts
       THEN /\ hs' = [hs EXCEPT ![h].attempts = @ + 1, ![h].st = "pending",
                                ![h].code = code, ![h].op = FindOp(code, FALSE)]
            /\ outbox' = outbox
       ELSE /\ hs' = Finish(h)
            /\ outbox' = Emit(outbox, hs[h].conn,
                              Event("join:error", "create failed", h))
    /\ UNCHANGED <<client, cid, sessionContent, name, db, nextId, rooms, currentSession>>

\* The retry, followed for MaxRetries collisions.
ResumeCreateRetry(h, code) == Retry(h, code, MaxRetries)

\* The retry, followed to the end of the loop.
ResumeCreateRetryAll(h, code) == Retry(h, code, maxAttempts)

\* create:session that gives up the previous room as leave:session would
\* for a creator: the record of the room the caller created is deleted.
ResumeCreateUniqueLeaving(h) ==
    /\ Ready(h, "create", "gen")
    /\ hs[h].id = 0
    /\ LET c == hs[h].conn IN
       /\ rooms' = IF currentSession[c] # NoSession
                   THEN Leave(rooms, c, currentSession[c])
                   ELSE rooms
       /\ db' = [i \in DocIds |->
                   IF /\ db[i].exists
                      /\ db[i].code = currentSession[c]
                      /\ db[i].creatorClientId = cid[c]
                   THEN NoDoc ELSE db[i]]
       /\ hs' = [Await(h, "save", NewSession(hs[h].code, c), InsertOp)
                   EXCEPT ![h].attempts = 0]
    /\ UNCHANGED <<client, cid, sessionContent, name, nextId, currentSession, outbox>>

\* Lines 91-101 and 261-277: the code is free and generateConnectionCode
\* returns it (its counter is gone with it); leave the previous room and
\* await the save of the new Session.
ResumeCreateUnique(h) ==
    /\ Ready(h, "create", "gen")
    /\ hs[h].id = 0
    /\ LET c == hs[h].conn IN
       /\ rooms' = IF currentSession[c] # NoSession
                   THEN Leave(rooms, c, currentSession[c])
                   ELSE rooms
       /\ hs' = [Await(h, "save", NewSession(hs[h].code, c), InsertOp)
                   EXCEPT ![h].attempts = 0]
    /\ UNCHANGED <<client, cid, sessionContent, name, db, nextId, currentSession, outbox>>

\* Lines 279-300: socket.join and the caller's events, or the catch block.
ResumeCreateSaved(h) ==
    /\ Ready(h, "create", "save")
    /\ LET c == hs[h].conn
           newCode == hs[h].code
           ob1 == Emit(outbox, c, Event("join:success", newCode, h))
           ob2 == Emit(ob1, c, Event("content:sync", EmptyText, h))
       IN IF hs[h].err
          THEN /\ outbox' = Emit(outbox, c,
                                 Event("join:error", "create failed", h))
               /\ UNCHANGED <<rooms, currentSession>>
          ELSE /\ rooms' = Join(rooms, c, newCode)
               /\ currentSession' = [currentSession EXCEPT ![c] = newCode]
               /\ outbox' = Emit(ob2, c,
                               Event("session:created",
                                     [code |-> newCode, roomSize |-> 1,
                                      waitingForUser |-> TRUE,
                                      participants |->
                                          getParticipants(hs[h].doc)], h))
    /\ hs' = Finish(h)
    /\ UNCHANGED <<client, cid, sessionContent, name, db, nextId>>

\* content:update rejecting a text of exactly MAX_CONTENT_SIZE characters.
RecvUpdateStrict(c, nextValue) ==
    /\ Len(hs) < MaxHandlers
    /\ Live(c)
    /\ LET h == Len(hs) + 1 IN
       IF ~IsString(nextValue) \/ currentSession[c] = NoSession
       THEN /\ hs' = Append(hs, Handler(c, "update", nextValue))
            /\ outbox' = outbox
       ELSE IF nextValue.length >= MAX_CONTENT_SIZE
       THEN /\ hs' = Append(hs, Handler(c, "update", nextValue))
            /\ outbox' = Emit(outbox, c, Event("content:error", "too large", h))
       ELSE /\ hs' = Append(hs, [Handler(c, "update", nextValue) EXCEPT
                                   !.pc = "find", !.st = "pending",
                                   !.code = currentSession[c],
                                   !.seen = DocByCode(currentSession[c]),
                                   !.op = FindOp(currentSession[c], FALSE)])
            /\ outbox' = outbox
    /\ UNCHANGED <<client, cid, sessionContent, name, db, nextId, rooms, currentSession>>

\* ------------------------------------------------------- content:update
\* Lines 304-316: the guards, then the await of Session.findOne.
RecvUpdate(c, nextValue) ==
    /\ Len(hs) < MaxHandlers
    /\ Live(c)
    /\ LET h == Len(hs) + 1 IN
       IF ~IsString(nextValue) \/ currentSession[c] = NoSession
       THEN /\ hs' = Append(hs, Handler(c, "update", nextValue))
            /\ outbox' = outbox
       ELSE IF nextValue.length > MAX_CONTENT_SIZE
       THEN /\ hs' = Append(hs, Handler(c, "update", nextValue))
            /\ outbox' = Emit(outbox, c, Event("content:error", "too large", h))
       ELSE /\ hs' = Append(hs, [Handler(c, "update", nextValue) EXCEPT
                                   !.pc = "find", !.st = "pending",
                                   !.code = currentSession[c],
                                   !.seen = DocByCode(currentSession[c]),
                                   !.op = FindOp(currentSession[c], FALSE)])
            /\ outbox' = outbox
    /\ UNCHANGED <<client, cid, sessionContent, name, db, nextId, rooms, currentSession>>

\* Lines 317-320: the session exists; assign content and await save().
ResumeUpdateFound(h) ==
    /\ Ready(h, "update", "find")
    /\ hs[h].id # 0
    /\ LET cur == [hs[h].doc EXCEPT !.content = hs[h].arg] IN
       hs' = Await(h, "save", cur,
                   SaveOp(Modified(hs[h].doc, cur, {"content"}),
                          <<>>, 0, {}, FALSE, FALSE))
    /\ UNCHANGED <<client, cid, sessionContent, name, db, nextId, rooms, currentSession, outbox>>

\* Lines 317 and 323-324: no session; broadcast without storing.
ResumeUpdateMissing(h) ==
    /\ Ready(h, "update", "find")
    /\ hs[h].id = 0
    /\ outbox' = Broadcast(outbox, rooms, hs[h].conn,
                           currentSession[hs[h].conn],
                           Event("content:sync", hs[h].arg, h))
    /\ hs' = Finish(h)
    /\ UNCHANGED <<client, cid, sessionContent, name, db, nextId, rooms, currentSession>>

\* Lines 323-327: the broadcast to the room currentSession names now, or the
\* catch block (a log line) when the save threw.
ResumeUpdateSaved(h) ==
    /\ Ready(h, "update", "save")
    /\ outbox' = IF hs[h].err THEN outbox
                 ELSE Broadcast(outbox, rooms, hs[h].conn,
                                currentSession[hs[h].conn],
                                Event("content:sync", hs[h].arg, h))
    /\ hs' = Finish(h)
    /\ UNCHANGED <<client, cid, sessionContent, name, db, nextId, rooms, currentSession>>

\* --------------------------------------------------------------- typing
\* A typing handler that also emits to the sender.
TypingEcho(c, isTyping) ==
    /\ Len(hs) < MaxHandlers
    /\ Live(c)
    /\ hs' = Append(hs, [Handler(c, "typing", isTyping) EXCEPT
                           !.code = currentSession[c]])
    /\ outbox' =
          IF currentSession[c] # NoSession
          THEN EmitAll(outbox, Members(rooms, currentSession[c]),
                       Event("typing", Boolean(isTyping), Len(hs) + 1))
          ELSE outbox
    /\ UNCHANGED <<client, cid, sessionContent, name, db, nextId, rooms, currentSession>>

\* Lines 331-339: no await; the handler runs to its end in one step.
Typing(c, isTyping) ==
    /\ Len(hs) < MaxHandlers
    /\ Live(c)
    /\ hs' = Append(hs, [Handler(c, "typing", isTyping) EXCEPT
                           !.code = currentSession[c]])
    /\ outbox' =
          IF currentSession[c] # NoSession
          THEN Broadcast(outbox, rooms, c, currentSession[c],
                         Event("typing", Boolean(isTyping), Len(hs) + 1))
          ELSE outbox
    /\ UNCHANGED <<client, cid, sessionContent, name, db, nextId, rooms, currentSession>>

\* -------------------------------------------------------- leave:session
\* Lines 375-381: nothing when unbound, else the await of Session.findOne.
RecvLeave(c) ==
    /\ Len(hs) < MaxHandlers
    /\ Live(c)
    /\ IF currentSession[c] = NoSession
       THEN hs' = Append(hs, Handler(c, "leave", <<>>))
       ELSE hs' = Append(hs, [Handler(c, "leave", <<>>) EXCEPT
                                !.pc = "find", !.st = "pending",
                                !.code = currentSession[c],
                                !.seen = DocByCode(currentSession[c]),
                                !.op = FindOp(currentSession[c], FALSE)])
    /\ UNCHANGED <<client, cid, sessionContent, name, db, nextId, rooms, currentSession, outbox>>

\* Lines 382-383: the session exists; await session.removeUserByClientId.
ResumeLeaveFound(h) ==
    /\ Ready(h, "leave", "find")
    /\ hs[h].id # 0
    /\ LET u == removeUserByClientId(hs[h].doc, cid[hs[h].conn]) IN
       hs' = Await(h, "save", u.doc, u.op)
    /\ UNCHANGED <<client, cid, sessionContent, name, db, nextId, rooms, currentSession, outbox>>

\* Lines 382 and 390-391: no session; socket.leave and unbind.
ResumeLeaveMissing(h) ==
    /\ Ready(h, "leave", "find")
    /\ hs[h].id = 0
    /\ LET c == hs[h].conn IN
       /\ rooms' = Leave(rooms, c, currentSession[c])
       /\ currentSession' = [currentSession EXCEPT ![c] = NoSession]
    /\ hs' = Finish(h)
    /\ UNCHANGED <<client, cid, sessionContent, name, db, nextId, outbox>>

\* Lines 384-395: the snapshot to the room currentSession names now, then
\* socket.leave and unbind; or the catch block when the save threw.
ResumeLeaveSaved(h) ==
    /\ Ready(h, "leave", "save")
    /\ LET c == hs[h].conn IN
       IF hs[h].err
       THEN UNCHANGED <<rooms, currentSession, outbox>>
       ELSE /\ outbox' = notifyRoomUsers(outbox, rooms, currentSession[c],
                            Event("participants:update",
                                  [participants |-> getParticipants(hs[h].doc)],
                                  h))
            /\ rooms' = Leave(rooms, c, currentSession[c])
            /\ currentSession' = [currentSession EXCEPT ![c] = NoSession]
    /\ hs' = Finish(h)
    /\ UNCHANGED <<client, cid, sessionContent, name, db, nextId>>

\* ------------------------------------------------------------ disconnect
\* A disconnect handler that treats the disconnect as a leave of a guest:
\* it drops the roster entry and sends the snapshot.
DisconnectAsLeave(c) ==
    /\ Len(hs) < MaxHandlers
    /\ Live(c)
    /\ hs' = Append(hs, [Handler(c, "disconnect", <<>>) EXCEPT
                           !.code = currentSession[c]])
    /\ rooms' = [code \in Codes |-> rooms[code] \ {c}]
    /\ LET d == DocByCode(currentSession[c])
           i == CHOOSE j \in DocIds : db[j] = d
           cur == [d EXCEPT !.joinedUsers = Filter(@, cid[c])]
       IN IF currentSession[c] # NoSession /\ d.exists
          THEN /\ db' = [db EXCEPT ![i] = cur]
               /\ outbox' = notifyRoomUsers(outbox, rooms', currentSession[c],
                                Event("participants:update",
                                      [participants |-> getParticipants(cur)],
                                      Len(hs) + 1))
          ELSE UNCHANGED <<db, outbox>>
    /\ UNCHANGED <<client, cid, sessionContent, name, nextId, currentSession>>

\* The transport closes the socket, which takes it out of every room, and
\* the handler of lines 399-405 runs: socket.leave(currentSession), with
\* no store call and no emit.  The closure variable keeps its value.
Disconnect(c) ==
    /\ Len(hs) < MaxHandlers
    /\ Live(c)
    /\ hs' = Append(hs, [Handler(c, "disconnect", <<>>) EXCEPT
                           !.code = currentSession[c]])
    /\ rooms' = [code \in Codes |-> rooms[code] \ {c}]
    /\ UNCHANGED <<client, cid, sessionContent, name, db, nextId, currentSession, outbox>>

\* ------------------------------------------------------ user:updateName
\* Lines 341-357: the unbound case, or sanitize the name, store it on the
\* socket, and await Session.findOne.
RecvRename(c, nextName) ==
    /\ Len(hs) < MaxHandlers
    /\ Live(c)
    /\ LET h == Len(hs) + 1
           cleanName == sanitizeDisplayName(nextName,
                            IF name[c] # EmptyName THEN name[c]
                            ELSE createDefaultName(c))
       IN IF currentSession[c] = NoSession
          THEN /\ hs' = Append(hs, Handler(c, "rename", nextName))
               /\ outbox' = Emit(outbox, c,
                       Event("ack", [ok |-> FALSE, name |-> EmptyName], h))
               /\ name' = name
          ELSE /\ hs' = Append(hs, [Handler(c, "rename", cleanName) EXCEPT
                                      !.raw = nextName,
                                      !.pc = "find", !.st = "pending",
                                      !.code = currentSession[c],
                                      !.seen = DocByCode(currentSession[c]),
                                      !.op = FindOp(currentSession[c], TRUE)])
               /\ name' = [name EXCEPT ![c] = cleanName]
               /\ outbox' = outbox
    /\ UNCHANGED <<client, cid, sessionContent, db, nextId, rooms, currentSession>>

\* Lines 358-361: no active session; the failure acknowledgement.
ResumeRenameMissing(h) ==
    /\ Ready(h, "rename", "find")
    /\ hs[h].id = 0
    /\ outbox' = Emit(outbox, hs[h].conn,
                      Event("ack", [ok |-> FALSE, name |-> EmptyName], h))
    /\ hs' = Finish(h)
    /\ UNCHANGED <<client, cid, sessionContent, name, db, nextId, rooms, currentSession>>

\* Line 363: await session.updateUserName.
ResumeRenameFound(h) ==
    /\ Ready(h, "rename", "find")
    /\ hs[h].id # 0
    /\ LET u == updateUserName(hs[h].doc, cid[hs[h].conn], hs[h].arg) IN
       hs' = Await(h, "save", u.doc, u.op)
    /\ UNCHANGED <<client, cid, sessionContent, name, db, nextId, rooms, currentSession, outbox>>

\* Lines 364-371: the snapshot to the room and the acknowledgement, or the
\* catch block when the save threw.
ResumeRenameSaved(h) ==
    /\ Ready(h, "rename", "save")
    /\ LET c == hs[h].conn IN
       outbox' =
          IF hs[h].err
          THEN Emit(outbox, c,
                    Event("ack", [ok |-> FALSE, name |-> EmptyName], h))
          ELSE Emit(notifyRoomUsers(outbox, rooms, currentSession[c],
                        Event("participants:update",
                              [participants |-> getParticipants(hs[h].doc)],
                              h)),
                    c, Event("ack", [ok |-> TRUE, name |-> hs[h].arg], h))
    /\ hs' = Finish(h)
    /\ UNCHANGED <<client, cid, sessionContent, name, db, nextId, rooms, currentSession>>

\* ------------------------------------------------------- HTTP requests
\* A request handler is recorded in hs like an intent; it has no socket.
Http == "http"

\* Lines 44-50: GET /health.
Health ==
    /\ Len(hs) < MaxHandlers
    /\ hs' = Append(hs, [Handler(Http, "health", <<>>) EXCEPT
                           !.res = [status |-> "ok", timestamp |-> Now]])
    /\ UNCHANGED <<client, cid, sessionContent, name, db, nextId, rooms, currentSession, outbox>>

\* Lines 53-58: GET /api/config.
Config ==
    /\ Len(hs) < MaxHandlers
    /\ hs' = Append(hs, [Handler(Http, "config", <<>>) EXCEPT
                           !.res = [codeLength |-> CODE_LENGTH,
                                    codeChars |-> Len(CODE_CHARS)]])
    /\ UNCHANGED <<client, cid, sessionContent, name, db, nextId, rooms, currentSession, outbox>>

\* Lines 413-415: GET /api/stats up to the await of Session.find.
RecvStats ==
    /\ Len(hs) < MaxHandlers
    /\ hs' = Append(hs, [Handler(Http, "stats", <<>>) EXCEPT
                           !.pc = "find", !.st = "pending",
                           !.op = [NoOp EXCEPT !.type = "findAllActive"]])
    /\ UNCHANGED <<client, cid, sessionContent, name, db, nextId, rooms, currentSession, outbox>>

\* Session.find({ isActive: true }): the copies of the matching documents.
StoreFindActive(h) ==
    /\ Pending(h, {"findAllActive"})
    /\ hs' = [hs EXCEPT ![h].st = "ready",
                        ![h].res = {db[i] : i \in {j \in DocIds :
                                        db[j].exists /\ db[j].isActive}}]
    /\ UNCHANGED <<client, cid, sessionContent, name, db, nextId, rooms, currentSession, outbox>>

\* sessionSchema.methods.getTotalUsers
getTotalUsers(d) == 1 + Len(d.joinedUsers)

\* sessionSchema.methods.hasBothUsers
hasBothUsers(d) == getTotalUsers(d) >= 2

\* GET /api/stats that closes the transport rooms of the sessions it does
\* not list.
ResumeStatsSweep(h) ==
    /\ Ready(h, "stats", "find")
    /\ hs' = [Finish(h) EXCEPT ![h].res =
                 [activeSessions |-> Cardinality(hs[h].res),
                  totalConnections |-> Cardinality({c \in Conns : Live(c)}),
                  sessions |-> {[code |-> d.code,
                                 lastActivity |-> d.lastActivity,
                                 roomSize |-> getTotalUsers(d),
                                 hasBothUsers |-> hasBothUsers(d)] :
                                d \in hs[h].res}]]
    /\ rooms' = [code \in Codes |->
                   IF \E d \in hs[h].res : d.code = code
                   THEN rooms[code] ELSE {}]
    /\ UNCHANGED <<client, cid, sessionContent, name, db, nextId, currentSession, outbox>>

\* Lines 416-427: the response of GET /api/stats.
ResumeStats(h) ==
    /\ Ready(h, "stats", "find")
    /\ hs' = [Finish(h) EXCEPT ![h].res =
                 [activeSessions |-> Cardinality(hs[h].res),
                  totalConnections |-> Cardinality({c \in Conns : Live(c)}),
                  sessions |-> {[code |-> d.code,
                                 lastActivity |-> d.lastActivity,
                                 roomSize |-> getTotalUsers(d),
                                 hasBothUsers |-> hasBothUsers(d)] :
                                d \in hs[h].res}]]
    /\ UNCHANGED <<client, cid, sessionContent, name, db, nextId, rooms, currentSession, outbox>>

Requests ==
    \/ Health
    \/ Config
    \/ RecvStats
    \/ \E h \in HandlerIds : StoreFindActive(h) \/ ResumeStats(h)

\* -------------------------------------------------------- specification
Store ==
    \E h \in HandlerIds :
        \/ StoreFind(h)
        \/ StoreInsert(h)
        \/ StoreSave(h)
        \/ StoreDelete(h)

Resume ==
    \E h \in HandlerIds :
        \/ ResumeJoinFound(h)
        \/ ResumeJoinSaved(h)
        \/ \E code \in Codes : ResumeCreateRetry(h, code)
        \/ ResumeCreateUnique(h)
        \/ ResumeCreateSaved(h)
        \/ ResumeUpdateFound(h)
        \/ ResumeUpdateMissing(h)
        \/ ResumeUpdateSaved(h)
        \/ ResumeLeaveFound(h)
        \/ ResumeLeaveMissing(h)
        \/ ResumeLeaveSaved(h)
        \/ ResumeRenameMissing(h)
        \/ ResumeRenameFound(h)
        \/ ResumeRenameSaved(h)

Recv ==
    \E c \in Conns :
        \/ \E input \in JoinInputs : RecvJoin(c, input)
        \/ \E code \in Codes : RecvCreate(c, code)
        \/ \E t \in Texts : RecvUpdate(c, t)
        \/ RecvLeave(c)
        \/ \E n \in NameInputs : RecvRename(c, n)
        \/ \E v \in TypingInputs : Typing(c, v)
        \/ Disconnect(c)

Next == Recv \/ Store \/ Resume \/ Requests

Spec == Init /\ [][Next]_vars

\* ------------------------------------------------------ scenario starts
\* States the relay reaches from Init once the handlers that led there have
\* finished; hs and outbox start empty, so they record the handlers and the
\* events of the run that follows.
RoomA == <<"A">>

Entry(c) == [socketId |-> c, clientId |-> cid[c], name |-> name[c]]

\* One stored room, with the given transport members and bound connections.
Start(cids, doc, members, bound) ==
    /\ cid = cids
    /\ name = [c \in Conns |-> createDefaultName(c)]
    /\ db = [i \in DocIds |-> IF i = 1 THEN doc ELSE NoDoc]
    /\ nextId = 2
    /\ rooms = [code \in Codes |-> IF code = doc.code THEN members ELSE {}]
    /\ currentSession =
          [c \in Conns |-> IF c \in bound THEN doc.code ELSE NoSession]
    /\ hs = <<>>
    /\ outbox = [c \in Conns |-> <<>>]
    /\ sessionContent = NoContent
    /\ client = [c \in Conns |-> App]

\* After create:session by c.
Created(c) == NewSession(RoomA, c)
\* After create:session by s1 and join:session by s2.
Joined ==
    [Created("s1") EXCEPT !.joinedUsers = <<Entry("s2")>>,
                          !.hasGuestJoined = TRUE, !.v = 1]
\* After create:session by s1 and join:session by s2 and by s3.
TwoGuests ==
    [Joined EXCEPT !.joinedUsers = Append(@, Entry("s3")), !.v = 2]
\* A record that a guest had joined, held by the collection with isActive
\* false when the server starts; its socket ids are of connections that are
\* gone.
Retained ==
    [Joined EXCEPT !.isActive = FALSE, !.creatorSocketId = "gone",
                   !.joinedUsers[1].socketId = "gone"]

DistinctClients == [c \in Conns |-> CASE c = "s1" -> "ca"
                                      [] c = "s2" -> "cb"
                                      [] OTHER -> "cc"]
\* s3 is a second connection of the client of s1.
SharedClient == [c \in Conns |-> IF c = "s2" THEN "cb" ELSE "ca"]

\* A creator waiting alone; guests join, the creator may leave.
InitGuestJoin == Start(DistinctClients, Created("s1"), {"s1"}, {"s1"})

NextGuestJoin ==
    \/ \E c \in {"s2", "s3"} : \E input \in {<<"A">>, <<"a">>} :
          RecvJoin(c, input)
    \/ RecvLeave("s1")
    \/ \E h \in HandlerIds :
          \/ StoreFind(h)
          \/ StoreSave(h)
          \/ StoreDelete(h)
          \/ ResumeJoinFound(h)
          \/ ResumeJoinSaved(h)
          \/ ResumeLeaveFound(h)
          \/ ResumeLeaveMissing(h)
          \/ ResumeLeaveSaved(h)

SpecGuestJoin == InitGuestJoin /\ [][NextGuestJoin]_vars

\* A creator and a guest in one room; both send content updates.
InitUpdate == Start(DistinctClients, Joined, {"s1", "s2"}, {"s1", "s2"})

NextUpdate ==
    \/ \E c \in {"s1", "s2"} : \E t \in Texts : RecvUpdate(c, t)
    \/ \E h \in HandlerIds :
          \/ StoreFind(h)
          \/ StoreSave(h)
          \/ ResumeUpdateFound(h)
          \/ ResumeUpdateSaved(h)

SpecUpdate == InitUpdate /\ [][NextUpdate]_vars

\* A room of s1 exists; s2 joins it and creates rooms of its own.
InitRebind == Start(DistinctClients, Created("s1"), {"s1"}, {"s1"})

NextRebind ==
    \/ \E input \in {<<"A">>, <<"a">>} : RecvJoin("s2", input)
    \/ \E code \in Codes : RecvCreate("s2", code)
    \/ \E h \in HandlerIds :
          \/ StoreFind(h)
          \/ StoreSave(h)
          \/ StoreInsert(h)
          \/ ResumeJoinFound(h)
          \/ ResumeJoinSaved(h)
          \/ \E code \in Codes : ResumeCreateRetry(h, code)
          \/ ResumeCreateUnique(h)
          \/ ResumeCreateSaved(h)

SpecRebind == InitRebind /\ [][NextRebind]_vars

\* A room of s2 exists; s1 and s3, two connections of one client, join it.
InitSameClient == Start(SharedClient, Created("s2"), {"s2"}, {"s2"})

NextSameClient ==
    \/ \E c \in {"s1", "s3"} : \E input \in {<<"A">>, <<"a">>} :
          RecvJoin(c, input)
    \/ \E h \in HandlerIds :
          \/ StoreFind(h)
          \/ StoreSave(h)
          \/ ResumeJoinFound(h)
          \/ ResumeJoinSaved(h)

SpecSameClient == InitSameClient /\ [][NextSameClient]_vars

\* A room with its creator s1 and a guest s2, or a server started on a
\* collection that holds the room inactive; the creator leaves, the guest
\* leaves or edits, and connections of the creator's client (s1, s3) join.
InitCreatorLeave ==
    \/ Start(SharedClient, Joined, {"s1", "s2"}, {"s1", "s2"})
    \/ Start(SharedClient, Retained, {}, {})

NextCreatorLeave ==
    \/ \E c \in {"s1", "s2"} : RecvLeave(c)
    \/ \E c \in {"s1", "s3"} : RecvJoin(c, <<"A">>)
    \/ RecvUpdate("s2", Text("A", 1))
    \/ \E h \in HandlerIds :
          \/ StoreFind(h)
          \/ StoreSave(h)
          \/ ResumeJoinFound(h)
          \/ ResumeJoinSaved(h)
          \/ ResumeLeaveFound(h)
          \/ ResumeLeaveSaved(h)
          \/ ResumeUpdateFound(h)
          \/ ResumeUpdateSaved(h)

SpecCreatorLeave == InitCreatorLeave /\ [][NextCreatorLeave]_vars

\* A creator alone in the room it created: the creator leaves, s2 joins,
\* s3 creates a room.
InitSolo == Start(DistinctClients, Created("s1"), {"s1"}, {"s1"})

NextSolo ==
    \/ RecvLeave("s1")
    \/ RecvJoin("s2", <<"A">>)
    \/ \E code \in Codes : RecvCreate("s3", code)
    \/ \E h \in HandlerIds :
          \/ StoreFind(h)
          \/ StoreInsert(h)
          \/ StoreSave(h)
          \/ StoreDelete(h)
          \/ ResumeJoinFound(h)
          \/ ResumeJoinSaved(h)
          \/ \E code \in Codes : ResumeCreateRetry(h, code)
          \/ ResumeCreateUnique(h)
          \/ ResumeCreateSaved(h)
          \/ ResumeLeaveFound(h)
          \/ ResumeLeaveMissing(h)
          \/ ResumeLeaveSaved(h)

SpecSolo == InitSolo /\ [][NextSolo]_vars

\* A creator and two guests: guest s2 leaves, guest s3 renames itself, the
\* creator edits.
InitGuestLeave ==
    Start(DistinctClients, TwoGuests, {"s1", "s2", "s3"}, {"s1", "s2", "s3"})

NextGuestLeave ==
    \/ RecvLeave("s2")
    \/ RecvRename("s3", <<"Z", "e", "d">>)
    \/ RecvUpdate("s1", Text("A", 1))
    \/ \E h \in HandlerIds :
          \/ StoreFind(h)
          \/ StoreSave(h)
          \/ ResumeLeaveFound(h)
          \/ ResumeLeaveSaved(h)
          \/ ResumeRenameFound(h)
          \/ ResumeRenameSaved(h)
          \/ ResumeUpdateFound(h)
          \/ ResumeUpdateSaved(h)

SpecGuestLeave == InitGuestLeave /\ [][NextGuestLeave]_vars

\* Texts at the size limit: one of MAX_CONTENT_SIZE characters and one of
\* one character more.
AtCap == Text("M", MAX_CONTENT_SIZE)
OverCap == Text("X", MAX_CONTENT_SIZE + 1)

\* A creator and a guest in one room; both send texts at the size limit.
InitCap == Start(DistinctClients, Joined, {"s1", "s2"}, {"s1", "s2"})

NextCap ==
    \/ \E c \in {"s1", "s2"} : \E t \in {AtCap, OverCap} : RecvUpdate(c, t)
    \/ \E h \in HandlerIds :
          \/ StoreFind(h)
          \/ StoreSave(h)
          \/ ResumeUpdateFound(h)
          \/ ResumeUpdateSaved(h)

SpecCap == InitCap /\ [][NextCap]_vars

\* A creator alone in its room, and s2 bound to no room: s2 sends codes that
\* are malformed, unknown or right, and a rename; s1 sends a text over the
\* size limit, a rename and leave:session.
InitErrors == Start(DistinctClients, Created("s1"), {"s1"}, {"s1"})

NextErrors ==
    \/ \E input \in {<<"A">>, <<"B">>, <<"A", "B">>} : RecvJoin("s2", input)
    \/ RecvUpdate("s1", OverCap)
    \/ \E c \in {"s1", "s2"} : RecvRename(c, <<"Z", "e", "d">>)
    \/ RecvLeave("s1")
    \/ \E h \in HandlerIds :
          \/ StoreFind(h)
          \/ StoreSave(h)
          \/ StoreDelete(h)
          \/ ResumeJoinFound(h)
          \/ ResumeJoinSaved(h)
          \/ ResumeLeaveFound(h)
          \/ ResumeLeaveMissing(h)
          \/ ResumeLeaveSaved(h)
          \/ ResumeRenameMissing(h)
          \/ ResumeRenameFound(h)
          \/ ResumeRenameSaved(h)

SpecErrors == InitErrors /\ [][NextErrors]_vars

\* A creator and a guest in room A; the guest sends codes that are unknown,
\* malformed or its own room's, while the creator edits.
InitJoinFail == Start(DistinctClients, Joined, {"s1", "s2"}, {"s1", "s2"})

NextJoinFail ==
    \/ \E input \in {<<"B">>, <<"A", "B">>, <<"a">>} : RecvJoin("s2", input)
    \/ RecvUpdate("s1", Text("A", 1))
    \/ \E h \in HandlerIds :
          \/ StoreFind(h)
          \/ StoreSave(h)
          \/ ResumeJoinFound(h)
          \/ ResumeJoinSaved(h)
          \/ ResumeUpdateFound(h)
          \/ ResumeUpdateSaved(h)

SpecJoinFail == InitJoinFail /\ [][NextJoinFail]_vars

\* A creator waiting in room A; s2 and s3 send the code in either case, or
\* a string one character short, while the creator edits.
InitCase == Start(DistinctClients, Created("s1"), {"s1"}, {"s1"})

NextCase ==
    \/ \E c \in {"s2", "s3"} : \E input \in {<<"A">>, <<"a">>, <<>>} :
          RecvJoin(c, input)
    \/ RecvUpdate("s1", Text("A", 1))
    \/ \E h \in HandlerIds :
          \/ StoreFind(h)
          \/ StoreSave(h)
          \/ ResumeJoinFound(h)
          \/ ResumeJoinSaved(h)
          \/ ResumeUpdateFound(h)
          \/ ResumeUpdateSaved(h)

SpecCase == InitCase /\ [][NextCase]_vars

\* A server started on a collection that holds room A inactive: s3 creates
\* a room, s2 joins.
InitInactiveCode == Start(DistinctClients, Retained, {}, {})

NextInactiveCode ==
    \/ \E code \in Codes : RecvCreate("s3", code)
    \/ \E input \in {<<"A">>, <<"B">>} : RecvJoin("s2", input)
    \/ \E h \in HandlerIds :
          \/ StoreFind(h)
          \/ StoreInsert(h)
          \/ StoreSave(h)
          \/ \E code \in Codes : ResumeCreateRetry(h, code)
          \/ ResumeCreateUnique(h)
          \/ ResumeCreateSaved(h)
          \/ ResumeJoinFound(h)
          \/ ResumeJoinSaved(h)

SpecInactiveCode == InitInactiveCode /\ [][NextInactiveCode]_vars

\* A creator bound to room A sends create:session; every draw may hit "A"
\* again, as often as the generator allows.
InitExhaust == Start(DistinctClients, Created("s1"), {"s1"}, {"s1"})

NextExhaust ==
    \/ \E code \in Codes : RecvCreate("s1", code)
    \/ \E h \in HandlerIds :
          \/ StoreFind(h)
          \/ StoreInsert(h)
          \/ \E code \in Codes : ResumeCreateRetryAll(h, code)
          \/ ResumeCreateUnique(h)
          \/ ResumeCreateSaved(h)

SpecExhaust == InitExhaust /\ [][NextExhaust]_vars

\* A server started on an empty collection; s1 and s2 send create:session.
NextCreateRace ==
    \/ \E c \in {"s1", "s2"} : \E code \in Codes : RecvCreate(c, code)
    \/ \E h \in HandlerIds :
          \/ StoreFind(h)
          \/ StoreInsert(h)
          \/ \E code \in Codes : ResumeCreateRetry(h, code)
          \/ ResumeCreateUnique(h)
          \/ ResumeCreateSaved(h)

SpecCreateRace == Init /\ [][NextCreateRace]_vars

\* s1 holds room A; s2 creates a room while s3 tries to join room B.
InitCreateJoin == Start(DistinctClients, Created("s1"), {"s1"}, {"s1"})

NextCreateJoin ==
    \/ \E code \in Codes : RecvCreate("s2", code)
    \/ RecvJoin("s3", <<"B">>)
    \/ \E h \in HandlerIds :
          \/ StoreFind(h)
          \/ StoreSave(h)
          \/ StoreInsert(h)
          \/ ResumeJoinFound(h)
          \/ ResumeJoinSaved(h)
          \/ \E code \in Codes : ResumeCreateRetry(h, code)
          \/ ResumeCreateUnique(h)
          \/ ResumeCreateSaved(h)

SpecCreateJoin == InitCreateJoin /\ [][NextCreateJoin]_vars

\* After create:session by s1 and join:session by s3, a second connection
\* of the creator's client: the join rebinds the creator entry to s3.
Rebound ==
    [Created("s1") EXCEPT !.creatorSocketId = "s3",
                          !.creatorName = createDefaultName("s3")]

\* Two connections of the creator's client in the room; one edits while the
\* other leaves.
InitTabs == Start(SharedClient, Rebound, {"s1", "s3"}, {"s1", "s3"})

NextTabs ==
    \/ \E t \in Texts : RecvUpdate("s1", t)
    \/ RecvLeave("s3")
    \/ \E h \in HandlerIds :
          \/ StoreFind(h)
          \/ StoreSave(h)
          \/ StoreDelete(h)
          \/ ResumeUpdateFound(h)
          \/ ResumeUpdateMissing(h)
          \/ ResumeUpdateSaved(h)
          \/ ResumeLeaveFound(h)
          \/ ResumeLeaveMissing(h)
          \/ ResumeLeaveSaved(h)

SpecTabs == InitTabs /\ [][NextTabs]_vars

\* A creator and a guest in one room and s3 outside it: all three send
\* typing, and s3 joins.
InitTyping == Start(DistinctClients, Joined, {"s1", "s2"}, {"s1", "s2"})

NextTyping ==
    \/ \E c \in Conns : \E v \in TypingInputs : Typing(c, v)
    \/ RecvJoin("s3", <<"A">>)
    \/ \E h \in HandlerIds :
          \/ StoreFind(h)
          \/ StoreSave(h)
          \/ ResumeJoinFound(h)
          \/ ResumeJoinSaved(h)

SpecTyping == InitTyping /\ [][NextTyping]_vars

\* A creator and a guest in one room and s3 outside it: connections
\* disconnect while the members edit.
InitDisconnect == Start(DistinctClients, Joined, {"s1", "s2"}, {"s1", "s2"})

NextDisconnect ==
    \/ \E c \in Conns : Disconnect(c)
    \/ \E c \in {"s1", "s2"} : RecvUpdate(c, Text("B", 1))
    \/ \E h \in HandlerIds :
          \/ StoreFind(h)
          \/ StoreSave(h)
          \/ ResumeUpdateFound(h)
          \/ ResumeUpdateSaved(h)

SpecDisconnect == InitDisconnect /\ [][NextDisconnect]_vars

\* After create:session by s2 and join:session by s1 and then by s3, two
\* connections of one client: the roster holds one entry for that client,
\* bound to s3.
SharedGuest ==
    [Created("s2") EXCEPT
        !.joinedUsers = <<[socketId |-> "s3", clientId |-> "ca",
                           name |-> createDefaultName("s3")]>>,
        !.hasGuestJoined = TRUE, !.v = 1]

\* Two connections of one client in a room, as guests (room of s2) or as
\* the creator (room of s1): s1 leaves and s3 renames itself.
InitStaleRename ==
    \/ Start(SharedClient, SharedGuest, {"s1", "s2", "s3"}, {"s1", "s2", "s3"})
    \/ Start(SharedClient, Rebound, {"s1", "s3"}, {"s1", "s3"})

NextStaleRename ==
    \/ RecvLeave("s1")
    \/ \E n \in NameInputs : RecvRename("s3", n)
    \/ \E h \in HandlerIds :
          \/ StoreFind(h)
          \/ StoreSave(h)
          \/ StoreDelete(h)
          \/ ResumeLeaveFound(h)
          \/ ResumeLeaveMissing(h)
          \/ ResumeLeaveSaved(h)
          \/ ResumeRenameMissing(h)
          \/ ResumeRenameFound(h)
          \/ ResumeRenameSaved(h)

SpecStaleRename == InitStaleRename /\ [][NextStaleRename]_vars

\* A creator and a guest in one room: they send content updates that are
\* not strings and names that are blank, next to well-formed ones.
InitInvalid == Start(DistinctClients, Joined, {"s1", "s2"}, {"s1", "s2"})

NextInvalid ==
    \/ \E c \in {"s1", "s2"} :
          \E v \in {Value("number", "42"), Value("undefined", "")} :
             RecvUpdate(c, v)
    \/ RecvUpdate("s1", Text("B", 1))
    \/ \E n \in NameInputs : RecvRename("s2", n)
    \/ \E h \in HandlerIds :
          \/ StoreFind(h)
          \/ StoreSave(h)
          \/ ResumeUpdateFound(h)
          \/ ResumeUpdateSaved(h)
          \/ ResumeRenameFound(h)
          \/ ResumeRenameSaved(h)

SpecInvalid == InitInvalid /\ [][NextInvalid]_vars

\* A room whose creator s1 has disconnected: the record is active and the
\* transport room is empty.  s2 and s3 join it and disconnect.
InitJoinOutcome == Start(DistinctClients, Created("s1"), {}, {"s1"})

NextJoinOutcome ==
    \/ \E c \in {"s2", "s3"} : \E input \in {<<"A">>, <<"a">>} :
          RecvJoin(c, input)
    \/ \E c \in {"s2", "s3"} : Disconnect(c)
    \/ \E h \in HandlerIds :
          \/ StoreFind(h)
          \/ StoreSave(h)
          \/ ResumeJoinFound(h)
          \/ ResumeJoinSaved(h)

SpecJoinOutcome == InitJoinOutcome /\ [][NextJoinOutcome]_vars

\* A creator and a guest in one room: s3 joins while the members edit.
InitJoinVsUpdate == Start(DistinctClients, Joined, {"s1", "s2"}, {"s1", "s2"})

NextJoinVsUpdate ==
    \/ RecvJoin("s3", <<"A">>)
    \/ \E c \in {"s1", "s2"} : \E t \in Texts : RecvUpdate(c, t)
    \/ \E h \in HandlerIds :
          \/ StoreFind(h)
          \/ StoreSave(h)
          \/ ResumeJoinFound(h)
          \/ ResumeJoinSaved(h)
          \/ ResumeUpdateFound(h)
          \/ ResumeUpdateSaved(h)

SpecJoinVsUpdate == InitJoinVsUpdate /\ [][NextJoinVsUpdate]_vars

\* Rooms of s1, waiting alone or with the guest s2; s3 is a second
\* connection of the creator's client.  s2 and s3 join, s1 and s2 leave,
\* s1 renames itself, s2 creates a room.
InitRoles ==
    \/ Start(SharedClient, Created("s1"), {"s1"}, {"s1"})
    \/ Start(SharedClient, Joined, {"s1", "s2"}, {"s1", "s2"})

NextRoles ==
    \/ \E c \in {"s2", "s3"} : RecvJoin(c, <<"A">>)
    \/ \E c \in {"s1", "s2"} : RecvLeave(c)
    \/ RecvRename("s1", <<"Z", "e", "d">>)
    \/ \E code \in Codes : RecvCreate("s2", code)
    \/ \E h \in HandlerIds :
          \/ StoreFind(h)
          \/ StoreInsert(h)
          \/ StoreSave(h)
          \/ StoreDelete(h)
          \/ ResumeJoinFound(h)
          \/ ResumeJoinSaved(h)
          \/ \E code \in Codes : ResumeCreateRetry(h, code)
          \/ ResumeCreateUnique(h)
          \/ ResumeCreateSaved(h)
          \/ ResumeLeaveFound(h)
          \/ ResumeLeaveMissing(h)
          \/ ResumeLeaveSaved(h)
          \/ ResumeRenameMissing(h)
          \/ ResumeRenameFound(h)
          \/ ResumeRenameSaved(h)

SpecRoles == InitRoles /\ [][NextRoles]_vars

\* A creator waiting alone in its room: HTTP requests arrive while a guest
\* joins, the creator edits and leaves, and connections drop.
InitControl == Start(DistinctClients, Created("s1"), {"s1"}, {"s1"})

NextControl ==
    \/ Requests
    \/ RecvJoin("s2", <<"A">>)
    \/ RecvUpdate("s1", Text("B", 1))
    \/ RecvLeave("s1")
    \/ \E c \in {"s1", "s2"} : Disconnect(c)
    \/ \E h \in HandlerIds :
          \/ StoreFind(h)
          \/ StoreSave(h)
          \/ StoreDelete(h)
          \/ ResumeJoinFound(h)
          \/ ResumeJoinSaved(h)
          \/ ResumeUpdateFound(h)
          \/ ResumeUpdateMissing(h)
          \/ ResumeUpdateSaved(h)
          \/ ResumeLeaveFound(h)
          \/ ResumeLeaveMissing(h)
          \/ ResumeLeaveSaved(h)

SpecControl == InitControl /\ [][NextControl]_vars

\* A creator and two guests in room A: guest s2 sends the code of the room
\* it is in, guest s3 leaves.
InitRejoin ==
    Start(DistinctClients, TwoGuests, {"s1", "s2", "s3"}, {"s1", "s2", "s3"})

NextRejoin ==
    \/ \E input \in {<<"A">>, <<"a">>} : RecvJoin("s2", input)
    \/ RecvLeave("s3")
    \/ \E h \in HandlerIds :
          \/ StoreFind(h)
          \/ StoreSave(h)
          \/ ResumeJoinFound(h)
          \/ ResumeJoinSaved(h)
          \/ ResumeLeaveFound(h)
          \/ ResumeLeaveSaved(h)

SpecRejoin == InitRejoin /\ [][NextRejoin]_vars

\* Room A with its creator s1, alone or with the guest s2: the members
\* create rooms of their own, and s2 joins room B.
InitImplicitLeave ==
    \/ Start(DistinctClients, Created("s1"), {"s1"}, {"s1"})
    \/ Start(DistinctClients, Joined, {"s1", "s2"}, {"s1", "s2"})

NextImplicitLeave ==
    \/ \E c \in {"s1", "s2"} : \E code \in Codes : RecvCreate(c, code)
    \/ RecvJoin("s2", <<"B">>)
    \/ \E h \in HandlerIds :
          \/ StoreFind(h)
          \/ StoreInsert(h)
          \/ StoreSave(h)
          \/ ResumeJoinFound(h)
          \/ ResumeJoinSaved(h)
          \/ \E code \in Codes : ResumeCreateRetry(h, code)
          \/ ResumeCreateUnique(h)
          \/ ResumeCreateSaved(h)

SpecImplicitLeave == InitImplicitLeave /\ [][NextImplicitLeave]_vars

\* ------------------------------------------------ the in-memory relay
\* The relay that keeps room content in the Map sessionContent and nothing
\* in a store.  Its handlers have no await: each runs to its end in one
\* step.  A handler is recorded in hs, finished, so that its emits can be
\* told apart.  generateConnectionCode draws CODE_LENGTH random characters
\* and returns them: the draw is the argument newCode of MemCreate.
MemLeft(c) ==
    IF currentSession[c] # NoSession
    THEN [rooms EXCEPT ![currentSession[c]] = @ \ {c}]
    ELSE rooms

\* join:session.
MemJoin(c, input) ==
    /\ Len(hs) < MaxMemHandlers
    /\ Live(c)
    /\ hs' = Append(hs, [Handler(c, "join", input) EXCEPT
                           !.code = IF Len(input) = CODE_LENGTH
                                    THEN toUpperCase(input) ELSE NoSession])
    /\ LET h == Len(hs) + 1
           sessionCode == toUpperCase(input)
       IN IF Len(input) # CODE_LENGTH
          THEN /\ outbox' = Emit(outbox, c,
                                 Event("join:error", "invalid code", h))
               /\ UNCHANGED <<rooms, currentSession, sessionContent>>
          ELSE LET joined == [MemLeft(c) EXCEPT ![sessionCode] = @ \cup {c}]
                   content == IF sessionContent[sessionCode].has
                              THEN sessionContent[sessionCode].text
                              ELSE EmptyText
                   roomSize == Cardinality(joined[sessionCode])
                   toCaller ==
                       Emit(Emit(outbox, c, Event("content:sync", content, h)),
                            c, Event("join:success", sessionCode, h))
                   announce == Event("user:joined", roomSize, h)
               IN /\ rooms' = joined
                  /\ currentSession' = [currentSession EXCEPT ![c] = sessionCode]
                  /\ sessionContent' =
                        [sessionContent EXCEPT
                           ![sessionCode] = [has |-> TRUE, text |-> content]]
                  /\ outbox' =
                        IF roomSize > 1
                        THEN Emit(EmitAll(toCaller,
                                          joined[sessionCode] \ {c}, announce),
                                  c, announce)
                        ELSE toCaller
    /\ UNCHANGED <<client, cid, name, db, nextId>>

\* create:session drawing `newCode` from generateConnectionCode.
MemCreate(c, newCode) ==
    /\ Len(hs) < MaxMemHandlers
    /\ Live(c)
    /\ hs' = Append(hs, [Handler(c, "create", <<>>) EXCEPT !.code = newCode])
    /\ LET h == Len(hs) + 1
       IN /\ sessionContent' =
                [sessionContent EXCEPT
                   ![newCode] = [has |-> TRUE, text |-> EmptyText]]
          /\ rooms' = [MemLeft(c) EXCEPT ![newCode] = @ \cup {c}]
          /\ currentSession' = [currentSession EXCEPT ![c] = newCode]
          /\ outbox' =
                Emit(Emit(Emit(outbox, c, Event("join:success", newCode, h)),
                          c, Event("content:sync", EmptyText, h)),
                     c, Event("user:joined", 1, h))
    /\ UNCHANGED <<client, cid, name, db, nextId>>

\* content:update.
MemUpdate(c, nextValue) ==
    /\ Len(hs) < MaxMemHandlers
    /\ Live(c)
    /\ hs' = Append(hs, [Handler(c, "update", nextValue) EXCEPT
                           !.code = currentSession[c]])
    /\ IF currentSession[c] = NoSession
       THEN UNCHANGED <<sessionContent, outbox>>
       ELSE /\ sessionContent' =
                  [sessionContent EXCEPT
                     ![currentSession[c]] = [has |-> TRUE, text |-> nextValue]]
            /\ outbox' = EmitAll(outbox, rooms[currentSession[c]] \ {c},
                                 Event("content:sync", nextValue, Len(hs) + 1))
    /\ UNCHANGED <<client, cid, name, db, nextId, rooms, currentSession>>

\* leave:session.
MemLeave(c) ==
    /\ Len(hs) < MaxMemHandlers
    /\ Live(c)
    /\ hs' = Append(hs, [Handler(c, "leave", <<>>) EXCEPT
                           !.code = currentSession[c]])
    /\ rooms' = MemLeft(c)
    /\ currentSession' = [currentSession EXCEPT ![c] = NoSession]
    /\ UNCHANGED <<client, cid, name, db, nextId, outbox, sessionContent>>

\* disconnect: the transport takes the socket out of its rooms; the handler
\* does nothing, and sessionContent keeps every entry.
MemDisconnect(c) ==
    /\ Len(hs) < MaxMemHandlers
    /\ Live(c)
    /\ hs' = Append(hs, [Handler(c, "disconnect", <<>>) EXCEPT
                           !.code = currentSession[c]])
    /\ rooms' = [code \in Codes |-> rooms[code] \ {c}]
    /\ UNCHANGED <<client, cid, name, db, nextId, outbox, sessionContent,
                   currentSession>>

\* The text s1 typed into room A before the run.
Typed == Text("A", 1)

\* A room of the in-memory relay: s1 created it under code A and typed "A".
InitMem ==
    /\ db = [i \in DocIds |-> NoDoc]
    /\ nextId = 1
    /\ rooms = [code \in Codes |-> IF code = <<"A">> THEN {"s1"} ELSE {}]
    /\ currentSession =
          [c \in Conns |-> IF c = "s1" THEN <<"A">> ELSE NoSession]
    /\ cid = DistinctClients
    /\ name = [c \in Conns |-> createDefaultName(c)]
    /\ hs = <<>>
    /\ outbox = [c \in Conns |-> <<>>]
    /\ sessionContent =
          [NoContent EXCEPT ![<<"A">>] = [has |-> TRUE, text |-> Typed]]
    /\ client = [c \in Conns |-> App]

NextMem ==
    \/ \E c \in Conns, input \in JoinInputs : MemJoin(c, input)
    \/ \E c \in Conns, newCode \in Codes : MemCreate(c, newCode)
    \/ \E c \in Conns, nextValue \in Texts : MemUpdate(c, nextValue)
    \/ \E c \in Conns : MemLeave(c)
    \/ \E c \in Conns : MemDisconnect(c)

SpecMem == InitMem /\ [][NextMem]_vars

\* Room A of the in-memory relay with its text, s1 in it or gone from it.
InitMemRoom ==
    \/ InitMem
    \/ /\ db = [i \in DocIds |-> NoDoc]
       /\ nextId = 1
       /\ rooms = [code \in Codes |-> {}]
       /\ currentSession = [c \in Conns |-> NoSession]
       /\ cid = DistinctClients
       /\ name = [c \in Conns |-> createDefaultName(c)]
       /\ hs = <<>>
       /\ outbox = [c \in Conns |-> <<>>]
       /\ sessionContent = [NoContent EXCEPT ![<<"A">>] =
                                              [has |-> TRUE, text |-> Typed]]
       /\ client = [c \in Conns |-> App]

\* s2 and s3 create rooms, join room A, type, leave and disconnect.
NextMemRoom ==
    \/ \E c \in {"s2", "s3"} : MemJoin(c, <<"a">>)
    \/ \E newCode \in Codes : MemCreate("s2", newCode)
    \/ \E c \in {"s1", "s2"} : MemUpdate(c, Text("B", 1))
    \/ \E c \in {"s1", "s2"} : MemLeave(c)
    \/ \E c \in {"s1", "s2"} : MemDisconnect(c)

SpecMemRoom == InitMemRoom /\ [][NextMemRoom]_vars

\* ---------------------------------------------------- the browser client
\* codeLength: the length the relay announces with code:config.
codeLength == CODE_LENGTH

Intent(type, arg) == [type |-> type, arg |-> arg]

\* client.emit
ClientEmit(app, type, arg) == [app EXCEPT !.sent = Append(@, Intent(type, arg))]

\* The content:update intents and the join and leave intents emitted so far.
Edits(c) ==
    Cardinality({i \in 1..Len(client[c].sent) :
                    client[c].sent[i].type = "content:update"})
Clicks ==
    Cardinality({p \in Conns \X (1..(2 * MaxHandlers)) :
                    /\ p[2] <= Len(client[p[1]].sent)
                    /\ client[p[1]].sent[p[2]].type
                          \in {"join:session", "leave:session"}})

\* notifyTyping that leaves the timer of the edit before running.
notifyTypingNoClear(app) ==
    LET a == IF ~app.localTypingRef
             THEN [ClientEmit(app, "typing", Value("boolean", "true"))
                      EXCEPT !.localTypingRef = TRUE]
             ELSE app
        t == a.typingTimeoutRef + 1
    IN [a EXCEPT !.timers = @ \cup {t}, !.typingTimeoutRef = t]

\* notifyTyping: typing(true) unless the client is typing already, then
\* clearTimeout of the timer set last and a new timer.
notifyTyping(app) ==
    LET a == IF ~app.localTypingRef
             THEN [ClientEmit(app, "typing", Value("boolean", "true"))
                      EXCEPT !.localTypingRef = TRUE]
             ELSE app
        t == a.typingTimeoutRef + 1
    IN [a EXCEPT !.timers = (@ \ {a.typingTimeoutRef}) \cup {t},
                 !.typingTimeoutRef = t]

\* handleBlockChange: an edit of the pad, which is rendered while
\* showTypingPad holds.
handleBlockChange(c, allContent) ==
    /\ Edits(c) < MaxEdits
    /\ client[c].showTypingPad
    /\ client' = [client EXCEPT
                    ![c] = notifyTyping(ClientEmit(@, "content:update",
                                                   allContent))]
    /\ UNCHANGED relay

\* The callback of the timer t of notifyTyping.
TypingTimeout(c, t) ==
    /\ t \in client[c].timers
    /\ client' = [client EXCEPT
                    ![c] = ClientEmit([@ EXCEPT !.timers = @ \ {t},
                                                !.localTypingRef = FALSE],
                                      "typing", Value("boolean", "false"))]
    /\ UNCHANGED relay

\* The cleanup of the effect that depends on isRecording: it runs when the
\* user starts or stops a recording and when the component unmounts, and
\* clears the timer set last without emitting.
RecordingCleanup(c) ==
    /\ client[c].showTypingPad
    /\ client[c].timers # {}
    /\ client' = [client EXCEPT ![c].timers = @ \ {client[c].typingTimeoutRef}]
    /\ UNCHANGED relay

\* handleJoinSession: joinSessionWithCode(inputCode, { showPadOnJoin: true }).
handleJoinSession(c, inputCode) ==
    /\ Clicks < MaxHandlers
    /\ LET normalized == trim(toUpperCase(inputCode)) IN
       IF Len(normalized) # codeLength
       THEN client' = client
       ELSE client' = [client EXCEPT
                         ![c] = ClientEmit([@ EXCEPT !.once = Append(@, TRUE)],
                                           "join:session", normalized)]
    /\ UNCHANGED relay

\* handleBack, of the button that is rendered while showTypingPad holds.
handleBack(c) ==
    /\ Clicks < MaxHandlers
    /\ client[c].showTypingPad
    /\ client' = [client EXCEPT
                    ![c] = [(IF @.connectionCode # <<>>
                             THEN ClientEmit(@, "leave:session", <<>>)
                             ELSE @)
                              EXCEPT !.connectionCode = <<>>,
                                     !.showTypingPad = FALSE]]
    /\ UNCHANGED relay

\* The listeners of the client for an event of the relay: handleJoinSuccess
\* and then the one-time listeners handleJoinComplete, handleUserJoined,
\* handleSessionCreated and handleWaitingForUser.  The listeners of the
\* other events leave the modelled state as it is.
OnEvent(app, e) ==
    CASE e.type = "join:success" ->
            [app EXCEPT !.connectionCode = e.val,
                        !.showTypingPad =
                            IF \E i \in 1..Len(app.once) : app.once[i]
                            THEN TRUE ELSE @,
                        !.once = <<>>]
      [] e.type = "user:joined" ->
            IF e.val.roomSize >= 2 /\ e.val.showPad
            THEN [app EXCEPT !.showTypingPad = TRUE,
                             !.connectionCode =
                                 IF @ # <<>> THEN @ ELSE e.val.code]
            ELSE app
      [] e.type \in {"session:created", "waiting:for:user"} ->
            [app EXCEPT !.connectionCode = e.val.code]
      [] OTHER -> app

\* The next event of the connection reaches the client.
HandleEvent(c) ==
    /\ client[c].handled < Len(outbox[c])
    /\ client' = [client EXCEPT
                    ![c] = [OnEvent(@, outbox[c][@.handled + 1])
                              EXCEPT !.handled = @ + 1]]
    /\ UNCHANGED relay

\* The intents of the connection the relay has received, and the next one
\* on its way.
Received(c) == Cardinality({h \in Handlers : hs[h].conn = c})
NextIntent(c) == client[c].sent[Received(c) + 1]
Arrives(c, type) ==
    /\ Received(c) < Len(client[c].sent)
    /\ NextIntent(c).type = type

\* The App component of a member of the room that shows the pad.
Shown(code) == [App EXCEPT !.showTypingPad = TRUE, !.connectionCode = code]

\* A creator and a guest in room A, both with the pad open: they edit, and
\* their typing timers run out.
InitDebounce ==
    /\ cid = DistinctClients
    /\ name = [c \in Conns |-> createDefaultName(c)]
    /\ db = [i \in DocIds |-> IF i = 1 THEN Joined ELSE NoDoc]
    /\ nextId = 2
    /\ rooms = [code \in Codes |-> IF code = RoomA THEN {"s1", "s2"} ELSE {}]
    /\ currentSession =
          [c \in Conns |-> IF c \in {"s1", "s2"} THEN RoomA ELSE NoSession]
    /\ hs = <<>>
    /\ outbox = [c \in Conns |-> <<>>]
    /\ sessionContent = NoContent
    /\ client = [c \in Conns |-> IF c \in {"s1", "s2"} THEN Shown(RoomA)
                                  ELSE App]

NextDebounce ==
    \/ \E c \in {"s1", "s2"} : \E allContent \in Texts :
          handleBlockChange(c, allContent)
    \/ \E c \in {"s1", "s2"} : \E t \in 1..(MaxEdits + 1) :
          TypingTimeout(c, t)

\* A timer that is pending runs out: the event loop calls its callback
\* unless clearTimeout cancels it first.
SpecDebounce ==
    /\ InitDebounce
    /\ [][NextDebounce]_vars
    /\ \A c \in {"s1", "s2"} :
          WF_vars(\E t \in 1..(MaxEdits + 1) : TypingTimeout(c, t))

\* The edits and timers, and recordings started and stopped in between.
NextRecording ==
    \/ NextDebounce
    \/ \E c \in {"s1", "s2"} : RecordingCleanup(c)

SpecRecording ==
    /\ InitDebounce
    /\ [][NextRecording]_vars
    /\ \A c \in {"s1", "s2"} :
          WF_vars(\E t \in 1..(MaxEdits + 1) : TypingTimeout(c, t))

\* A room whose creator s1 has disconnected; the users of s2 and s3 enter
\* its code and go back.
InitPad == Start(DistinctClients, Created("s1"), {}, {"s1"})

NextPad ==
    \/ \E c \in {"s2", "s3"} : \E inputCode \in {<<"A">>, <<"a">>, <<>>} :
          handleJoinSession(c, inputCode)
    \/ \E c \in {"s2", "s3"} : handleBack(c)
    \/ \E c \in {"s2", "s3"} : HandleEvent(c)
    \/ \E c \in {"s2", "s3"} :
          Arrives(c, "join:session") /\ RecvJoin(c, NextIntent(c).arg)
    \/ \E c \in {"s2", "s3"} : Arrives(c, "leave:session") /\ RecvLeave(c)
    \/ \E h \in HandlerIds :
          \/ StoreFind(h)
          \/ StoreSave(h)
          \/ ResumeJoinFound(h)
          \/ ResumeJoinSaved(h)
          \/ ResumeLeaveFound(h)
          \/ ResumeLeaveSaved(h)

SpecPad == InitPad /\ [][NextPad]_vars

\* ---------------------------------------------------------------- claims
AllDone == hs # <<>> /\ \A h \in Handlers : hs[h].pc = "done"

HasEvent(ob, type, h) ==
    \E i \in 1..Len(ob) : ob[i].type = type /\ ob[i].by = h

HasJoined(ob, h, size) ==
    \E i \in 1..Len(ob) :
        /\ ob[i].type = "user:joined"
        /\ ob[i].by = h
        /\ ob[i].val.roomSize = size

\* The stored room with this code has k as its creator's socket.
CreatorSocket(code, k) ==
    \E i \in DocIds :
        db[i].exists /\ db[i].code = code /\ db[i].creatorSocketId = k

\* C1: when a guest's join:session completes on a room whose only transport
\* member is the creator's socket, that step emits user:joined with
\* roomSize 2 to the creator's socket and to the guest's socket alike (the
\* emits are one synchronous step, so no state has one without the other).
C1_MembershipTransition ==
    [][\A h \in HandlerIds : \A k \in Conns :
          (/\ ResumeJoinSaved(h)
           /\ ~hs[h].err
           /\ k # hs[h].conn
           /\ rooms[hs[h].code] = {k}
           /\ CreatorSocket(hs[h].code, k))
          => /\ HasJoined(outbox'[k], h, 2)
             /\ HasJoined(outbox'[hs[h].conn], h, 2)]_vars

\* A guest's join has completed on the creator's room and both hold the event.
C1_Witness ==
    \E h \in Handlers :
        /\ hs[h].kind = "join"
        /\ hs[h].pc = "done"
        /\ hs[h].conn = "s2"
        /\ rooms[RoomA] = {"s1", "s2"}
        /\ CreatorSocket(RoomA, "s1")
        /\ HasJoined(outbox["s1"], h, 2)
        /\ HasJoined(outbox["s2"], h, 2)

\* The positions in ob of the content:sync events that handler h caused.
SyncsBy(ob, h) ==
    {i \in 1..Len(ob) : ob[i].type = "content:sync" /\ ob[i].by = h}

\* C2: when one connection sends two different content:update texts, first
\* by handler h1 and then by handler h2, no other connection is sent the
\* content:sync of h2 and later the content:sync of h1.
C2_UpdateOrder ==
    \A h1, h2 \in Handlers :
        (/\ h1 < h2
         /\ hs[h1].kind = "update" /\ hs[h2].kind = "update"
         /\ hs[h1].conn = hs[h2].conn
         /\ hs[h1].arg # hs[h2].arg)
        => \A k \in Conns \ {hs[h1].conn} :
              \A i \in SyncsBy(outbox[k], h2) :
                 \A j \in SyncsBy(outbox[k], h1) : j < i

\* The accepted content:update handlers that loaded document i.
UpdatesOn(i) ==
    {h \in Handlers : hs[h].kind = "update" /\ hs[h].id = i}

Max(S) == CHOOSE x \in S : \A y \in S : y <= x

\* C3: once every handler has finished, each room's stored content is the
\* text of the content:update the relay received last for that room.
C3_NoLostUpdate ==
    AllDone =>
        \A i \in DocIds :
            (db[i].exists /\ UpdatesOn(i) # {})
            => db[i].content = hs[Max(UpdatesOn(i))].arg

\* The session rooms of the transport that hold connection c.
RoomsOf(c) == {code \in Codes : c \in rooms[code]}

\* C4: a connection is a member of at most one session room of the transport.
C4_OneRoom == \A c \in Conns : Cardinality(RoomsOf(c)) <= 1

\* The clientIds of a stored room's roster: the creator, then the guests.
RosterIds(d) ==
    <<d.creatorClientId>>
    \o [j \in 1..Len(d.joinedUsers) |-> d.joinedUsers[j].clientId]

\* C5: in every stored room the roster (creator plus joinedUsers) holds
\* every clientId at most once.
C5_RosterUnique ==
    \A i \in DocIds :
        db[i].exists =>
            \A j, k \in 1..Len(RosterIds(db[i])) :
                j # k => RosterIds(db[i])[j] # RosterIds(db[i])[k]

ValidJoin(h) == hs[h].kind = "join" /\ Len(hs[h].arg) = CODE_LENGTH

\* C6: a join:session that arrives while the room its code names is stored
\* with isActive false never gets past the lookup: the lookup returns
\* nothing, the handler never reaches addOrUpdateUser or socket.join, and it
\* ends with join:error and no join:success for the caller.
C6_InactiveNotJoinable ==
    \A h \in Handlers :
        (ValidJoin(h) /\ hs[h].seen.exists /\ ~hs[h].seen.isActive)
        => /\ hs[h].pc \in {"find", "done"}
           /\ hs[h].id = 0
           /\ hs[h].pc = "done" =>
                 /\ HasEvent(outbox[hs[h].conn], "join:error", h)
                 /\ ~HasEvent(outbox[hs[h].conn], "join:success", h)
                 /\ \A c \in Conns : ~HasEvent(outbox[c], "user:joined", h)

\* A join on the retained inactive room has ended with join:error, and the
\* caller is neither in the roster nor in the transport room.
C6_Witness ==
    \E h \in Handlers :
        /\ ValidJoin(h) /\ hs[h].seen.exists /\ ~hs[h].seen.isActive
        /\ hs[h].pc = "done"
        /\ hs[h].conn = "s3"
        /\ HasEvent(outbox["s3"], "join:error", h)
        /\ "s3" \notin rooms[RoomA]
        /\ currentSession["s3"] = NoSession
        /\ db[1].exists /\ ~db[1].isActive
        /\ \A j \in 1..Len(db[1].joinedUsers) :
              db[1].joinedUsers[j].socketId # "s3"

\* The handler is a leave:session of the client that created the room.
CreatorLeave(h) ==
    /\ hs[h].kind = "leave"
    /\ hs[h].seen.exists
    /\ hs[h].seen.creatorClientId = cid[hs[h].conn]

OwnRoomLeave(h) ==
    /\ hs[h].kind = "leave"
    /\ hs[h].doc.exists
    /\ hs[h].doc.creatorClientId = cid[hs[h].conn]

\* The handler is a leave:session of a client other than the creator's.
GuestLeave(h) ==
    /\ hs[h].kind = "leave"
    /\ hs[h].seen.exists
    /\ hs[h].seen.creatorClientId # cid[hs[h].conn]

\* C8: when the creator of a room that no guest has joined sends
\* leave:session, the store step of the handler removes the record it
\* loaded; the code generator's lookup of a code without a record accepts
\* the code; and a join:session that arrived when the code had no record
\* ends, as long as no new room has taken the code, with join:error and no
\* join:success.
C8_SoloLeaveDeletes ==
    /\ [][\A h \in HandlerIds :
            /\ ((StoreSave(h) \/ StoreDelete(h))
                /\ OwnRoomLeave(h) /\ ~db[hs[h].id].hasGuestJoined)
               => ~db'[hs[h].id].exists
            /\ (StoreFind(h) /\ hs[h].kind = "create"
                /\ ~DocByCode(hs[h].code).exists)
               => hs'[h].id = 0]_vars
    /\ [](\A j \in Handlers :
            (/\ ValidJoin(j) /\ hs[j].pc = "done"
             /\ ~hs[j].seen.exists /\ ~DocByCode(hs[j].code).exists)
            => /\ HasEvent(outbox[hs[j].conn], "join:error", j)
               /\ ~HasEvent(outbox[hs[j].conn], "join:success", j))

\* The creator's leave has deleted the guestless room, and a later
\* create:session has been given the same code for a new room.
C8_Witness ==
    \E l, k \in Handlers :
        /\ CreatorLeave(l) /\ hs[l].pc = "done" /\ ~hs[l].err
        /\ hs[l].op.type = "delete"
        /\ ~db[1].exists
        /\ hs[k].kind = "create" /\ hs[k].pc = "done" /\ ~hs[k].err
        /\ hs[k].code = RoomA
        /\ db[2].exists /\ db[2].code = RoomA
        /\ HasEvent(outbox[hs[k].conn], "session:created", k)

\* C9: a leave:session of the creator that arrives when the room's
\* hasGuestJoined is true awaits a save and never a delete, and that save
\* leaves the record stored with isActive false and with content, roster
\* and hasGuestJoined as they were.
C9_CreatorLeaveRetains ==
    [][\A h \in HandlerIds :
          /\ (ResumeLeaveFound(h) /\ CreatorLeave(h)
              /\ hs[h].seen.hasGuestJoined)
             => hs'[h].op.type = "save"
          /\ ((StoreSave(h) \/ StoreDelete(h)) /\ CreatorLeave(h)
              /\ hs[h].seen.hasGuestJoined)
             => /\ ~hs'[h].err
                /\ db'[hs[h].id].exists
                /\ ~db'[hs[h].id].isActive
                /\ db'[hs[h].id].content = db[hs[h].id].content
                /\ db'[hs[h].id].joinedUsers = db[hs[h].id].joinedUsers
                /\ db'[hs[h].id].hasGuestJoined]_vars

\* C10: the save of a guest's leave:session removes the entries of that
\* guest's clientId from the stored roster and changes nothing else of the
\* record: isActive, content, the creator fields and the other entries of
\* the roster are as they were stored before the save.
C10_GuestLeaveFrame ==
    [][\A h \in HandlerIds :
          (StoreSave(h) /\ GuestLeave(h))
          => db'[hs[h].id] =
                [db[hs[h].id] EXCEPT
                   !.joinedUsers = Filter(@, cid[hs[h].conn]),
                   !.lastActivity = db'[hs[h].id].lastActivity,
                   !.writer = db'[hs[h].id].writer,
                   !.v = db'[hs[h].id].v]]_vars

\* Handler h has sent content:sync to some connection.
Synced(h) == \E k \in Conns : SyncsBy(outbox[k], h) # {}

\* C11: a content:update of exactly MAX_CONTENT_SIZE characters is stored by
\* its save and, once the handler has finished, has been sent as
\* content:sync to the other member of the room; a content:update of one
\* character more ends at once with content:error to the caller, awaits no
\* store call, is never stored as content, never stamps lastActivity, and
\* sends no content:sync to anyone.
C11_SizeBoundary ==
    /\ [](\A h \in Handlers :
            /\ (hs[h].kind = "update" /\ hs[h].arg = OverCap)
               => /\ hs[h].pc = "done" /\ hs[h].op = NoOp
                  /\ HasEvent(outbox[hs[h].conn], "content:error", h)
                  /\ ~Synced(h)
                  /\ \A i \in DocIds :
                        db[i].content # OverCap /\ db[i].writer # h
            /\ (hs[h].kind = "update" /\ hs[h].arg = AtCap
                /\ hs[h].pc = "done")
               => /\ ~hs[h].err
                  /\ ~HasEvent(outbox[hs[h].conn], "content:error", h)
                  /\ \A k \in rooms[RoomA] \ {hs[h].conn} :
                        \E i \in SyncsBy(outbox[k], h) :
                           outbox[k][i].val = AtCap)
    /\ [][\A h \in HandlerIds :
            (StoreSave(h) /\ hs[h].kind = "update" /\ hs[h].arg = AtCap)
            => db'[hs[h].id].content = AtCap]_vars

\* s1 has sent both texts: the one at the limit is stored and was sent to
\* s2, the longer one was answered with content:error.
C11_Witness ==
    \E h, g \in Handlers :
        /\ hs[h].conn = "s1" /\ hs[g].conn = "s1"
        /\ hs[h].arg = AtCap /\ hs[h].pc = "done"
        /\ hs[g].arg = OverCap /\ h < g
        /\ db[1].content = AtCap /\ db[1].writer = h
        /\ SyncsBy(outbox["s2"], h) # {}
        /\ HasEvent(outbox["s1"], "content:error", g)

\* The event reports a failure: join:error, content:error, or the
\* acknowledgement of user:updateName with ok false.
IsError(e) ==
    \/ e.type \in {"join:error", "content:error"}
    \/ e.type = "ack" /\ ~e.val.ok

\* The positions in ob of the failure events.
Errors(ob) == {i \in 1..Len(ob) : IsError(ob[i])}

\* C12: every failure event a connection has been sent was caused by an
\* intent of that same connection.
C12_ErrorsToCaller ==
    \A k \in Conns :
        \A i \in Errors(outbox[k]) : hs[outbox[k][i].by].conn = k

\* s2 has been refused a join and s1 a text, each told so itself and
\* nobody else.
C12_Witness ==
    \E h, g \in Handlers :
        /\ hs[h].conn = "s2" /\ hs[h].kind = "join"
        /\ hs[g].conn = "s1" /\ hs[g].kind = "update"
        /\ HasEvent(outbox["s2"], "join:error", h)
        /\ HasEvent(outbox["s1"], "content:error", g)
        /\ "s1" \in rooms[RoomA]
        /\ Errors(outbox["s3"]) = {}

\* The step is one of handler h: it starts h or moves it on.
StepOf(h) == h \in DOMAIN hs' /\ (h \in DOMAIN hs => hs'[h] # hs[h])

\* C13: every step of a join:session handler that has not found an active
\* room (its start, with the length check; a lookup that finds nothing; the
\* join:error that follows) leaves the stored rooms, the transport rooms
\* and every connection's binding as they were.
C13_FailedJoinNoChange ==
    [][\A h \in HandlerIds :
          (StepOf(h) /\ hs'[h].kind = "join" /\ hs'[h].id = 0)
          => UNCHANGED <<db, nextId, rooms, currentSession>>]_vars

\* The guest of room A has been refused an unknown code and a malformed
\* one, and is still bound to room A and a member of it.
C13_Witness ==
    \E h, g \in Handlers :
        /\ hs[h].conn = "s2" /\ hs[h].arg = <<"B">> /\ hs[h].pc = "done"
        /\ hs[g].conn = "s2" /\ hs[g].arg = <<"A", "B">>
        /\ HasEvent(outbox["s2"], "join:error", h)
        /\ HasEvent(outbox["s2"], "join:error", g)
        /\ currentSession["s2"] = RoomA
        /\ rooms[RoomA] = {"s1", "s2"}
        /\ db[1] = Joined /\ ~db[2].exists

\* The join:success events in ob that handler h caused carry this code.
SuccessWith(ob, h, code) ==
    \E i \in 1..Len(ob) :
        ob[i].type = "join:success" /\ ob[i].by = h /\ ob[i].val = code

\* C14: the lookup of a join:session whose code is the code of the active
\* room A in either case finds room A, and when the join completes the
\* caller is bound to room A, is a member of the transport room and is in
\* the stored roster, and its join:success carries the upper-case code; a
\* join:session whose string is one character shorter than CODE_LENGTH gets
\* join:error and looks up nothing.
C14_CaseInsensitive ==
    /\ [][\A h \in HandlerIds :
            /\ (StoreFind(h) /\ hs[h].kind = "join"
                /\ hs[h].arg \in {<<"A">>, <<"a">>})
               => hs'[h].id = 1
            /\ (ResumeJoinSaved(h) /\ ~hs[h].err
                /\ hs[h].arg \in {<<"A">>, <<"a">>})
               => /\ SuccessWith(outbox'[hs[h].conn], h, RoomA)
                  /\ currentSession'[hs[h].conn] = RoomA
                  /\ hs[h].conn \in rooms'[RoomA]
                  /\ IndexOf(db[1].joinedUsers, cid[hs[h].conn]) # 0]_vars
    /\ [](\A h \in Handlers :
            (hs[h].kind = "join" /\ Len(hs[h].arg) = CODE_LENGTH - 1)
            => /\ HasEvent(outbox[hs[h].conn], "join:error", h)
               /\ ~HasEvent(outbox[hs[h].conn], "join:success", h)
               /\ hs[h].pc = "done" /\ hs[h].op = NoOp)

\* s2 has joined room A by its lower-case code and s3 has been refused a
\* string one character short.
C14_Witness ==
    \E h, g \in Handlers :
        /\ hs[h].conn = "s2" /\ hs[h].arg = <<"a">> /\ hs[h].pc = "done"
        /\ HasEvent(outbox["s2"], "join:success", h)
        /\ currentSession["s2"] = RoomA /\ "s2" \in rooms[RoomA]
        /\ hs[g].conn = "s3" /\ Len(hs[g].arg) = CODE_LENGTH - 1
        /\ HasEvent(outbox["s3"], "join:error", g)
        /\ currentSession["s3"] = NoSession

\* An active room is stored with this code.
ActiveCode(code) ==
    \E i \in DocIds : db[i].exists /\ db[i].code = code /\ db[i].isActive

Draws(h) == hs[h].attempts + 1

\* create:session handler h has ended in the generator, without a code.
Exhausted(h) ==
    hs[h].kind = "create" /\ hs[h].pc = "done" /\ hs[h].op.type = "find"

\* C16: generateConnectionCode draws at most maxAttempts candidates; it gives
\* up only after maxAttempts collisions, and the create:session that called
\* it has then sent join:error to the caller and neither join:success nor
\* session:created, and has stored no room; and no step of a handler that
\* is still in the generator changes the stored rooms, the transport rooms
\* or a binding.
C16_GeneratorExhaustion ==
    /\ [](\A h \in Handlers :
            /\ hs[h].kind = "create" => Draws(h) <= maxAttempts
            /\ Exhausted(h)
               => /\ Draws(h) = maxAttempts
                  /\ HasEvent(outbox[hs[h].conn], "join:error", h)
                  /\ ~HasEvent(outbox[hs[h].conn], "join:success", h)
                  /\ ~HasEvent(outbox[hs[h].conn], "session:created", h)
                  /\ \A i \in DocIds : db[i].writer # h)
    /\ [][\A h \in HandlerIds :
            (StepOf(h) /\ hs'[h].kind = "create" /\ hs'[h].op.type = "find")
            => UNCHANGED <<db, nextId, rooms, currentSession>>]_vars

\* The creator of room A has asked for a new room, all its draws collided,
\* and it is still bound to room A and a member of it; no room was added.
C16_Witness ==
    \E h \in Handlers :
        /\ Exhausted(h) /\ hs[h].conn = "s1"
        /\ Draws(h) = maxAttempts
        /\ HasEvent(outbox["s1"], "join:error", h)
        /\ currentSession["s1"] = RoomA /\ "s1" \in rooms[RoomA]
        /\ db[1] = Created("s1") /\ ~db[2].exists

\* The stored rooms with this code.
Stored(code) == {i \in DocIds : db[i].exists /\ db[i].code = code}

\* C17: no two stored rooms have the same code; a create:session whose insert
\* succeeded puts its caller into the transport room of a code whose only
\* stored room is the one the caller created; one whose insert failed joins
\* no room and binds nothing.
C17_UniqueCodes ==
    /\ [](\A code \in Codes : Cardinality(Stored(code)) <= 1)
    /\ [][\A h \in HandlerIds :
            ResumeCreateSaved(h)
            => IF hs[h].err
               THEN UNCHANGED <<rooms, currentSession>>
               ELSE /\ hs[h].conn \in rooms'[hs[h].code]
                    /\ Stored(hs[h].code) = {hs[h].id}
                    /\ db[hs[h].id].creatorSocketId = hs[h].conn]_vars

\* Two create:session handlers drew "A" and both found it free; one stored
\* its room, the other failed on the insert and was sent join:error.
C17_Witness ==
    \E h, g \in Handlers :
        /\ h # g
        /\ hs[h].kind = "create" /\ hs[g].kind = "create"
        /\ hs[h].code = RoomA /\ hs[g].code = RoomA
        /\ hs[h].pc = "done" /\ hs[g].pc = "done"
        /\ hs[h].attempts = 0 /\ hs[g].attempts = 0
        /\ hs[h].op.type = "insert" /\ hs[g].op.type = "insert"
        /\ ~hs[h].err /\ hs[g].err
        /\ HasEvent(outbox[hs[g].conn], "join:error", g)
        /\ rooms[RoomA] = {hs[h].conn}
        /\ Stored(RoomA) = {hs[h].id}

\* C18: in the in-memory relay, create:session never draws a code that a
\* room with members already uses: a create never changes the content
\* stored for a room that has a member other than the creator, and never
\* joins the creator to such a room.
C18_CreateFreshCode ==
    [][\A h \in HandlerIds :
          (StepOf(h) /\ hs'[h].kind = "create")
          => LET c == hs'[h].conn
             IN /\ rooms[hs'[h].code] \ {c} = {}
                /\ \A code \in Codes :
                      rooms[code] \ {c} # {}
                      => sessionContent'[code] = sessionContent[code]]_vars

\* A create:session handler completes successfully in this step.
CreateCompletes(h) ==
    /\ h \in DOMAIN hs
    /\ hs[h].kind = "create" /\ hs[h].pc = "save" /\ ~hs[h].err
    /\ hs'[h].pc = "done"

\* C19: when a create:session completes successfully, the stored room of
\* the new code is active, has empty content and exactly one participant,
\* the creator (isCreator, the caller's clientId and socket id); the caller
\* is bound to the code and has received join:success with the code and
\* content:sync("") from this handler.
C19_AfterCreate ==
    [][\A h \in HandlerIds :
          CreateCompletes(h)
          => LET c == hs[h].conn
                 newCode == hs[h].code
                 d == DocByCode(newCode)
                 participants == getParticipants(d)
             IN /\ d.exists /\ d.isActive
                /\ d.content = EmptyText
                /\ Len(participants) = 1
                /\ participants[1].isCreator
                /\ participants[1].clientId = cid[c]
                /\ participants[1].socketId = c
                /\ currentSession'[c] = newCode
                /\ \E i \in 1..Len(outbox'[c]) :
                      outbox'[c][i] = Event("join:success", newCode, h)
                /\ \E i \in 1..Len(outbox'[c]) :
                      outbox'[c][i] = Event("content:sync", EmptyText, h)]_vars

\* The handler of an accepted content:update (sender bound, text within
\* the limit) ends in this step.
UpdateEnds(h) ==
    /\ h \in DOMAIN hs
    /\ hs[h].kind = "update" /\ hs[h].pc \in {"find", "save"}
    /\ hs'[h].pc = "done"

\* C20: when the handler of an accepted content:update ends, content:sync
\* with its text has been sent to every other connection that is then a
\* member of the room the sender is bound to, and to nobody else: not to
\* the sender and not to a connection outside that room.
C20_BroadcastToOthers ==
    [][\A h \in HandlerIds :
          UpdateEnds(h)
          => LET c == hs[h].conn
                 others == Members(rooms, currentSession[c]) \ {c}
                 e == Event("content:sync", hs[h].arg, h)
             IN \A k \in Conns :
                   outbox'[k] = IF k \in others
                                THEN Append(outbox[k], e) ELSE outbox[k]]_vars

\* A typing intent arrives in this step and is handler h.
TypingArrives(h) ==
    /\ h = Len(hs) + 1
    /\ h \in DOMAIN hs'
    /\ hs'[h].kind = "typing"

\* C21: a typing intent changes no stored room, no transport room, no
\* binding and no connection data; from a bound connection it is sent as
\* typing with the flag converted to a truth value (0, "" and undefined
\* are false, 1 and "false" are true) to the other members of the sender's
\* room and not to the sender; from an unbound connection nothing is sent.
C21_TypingPassthrough ==
    [][\A h \in HandlerIds :
          TypingArrives(h)
          => LET c == hs'[h].conn
                 flag == hs'[h].arg
                 truth == flag \in {Value("boolean", "true"),
                                    Value("number", "1"),
                                    Value("string", "false")}
                 others == IF currentSession[c] = NoSession THEN {}
                           ELSE rooms[currentSession[c]] \ {c}
             IN /\ UNCHANGED <<db, nextId, rooms, currentSession, cid, name>>
                /\ \A k \in Conns :
                      outbox'[k] = IF k \in others
                                   THEN Append(outbox[k],
                                               Event("typing", truth, h))
                                   ELSE outbox[k]]_vars

\* s1 has sent typing(1) and s2 was sent typing(true); s3, bound to no
\* room, has sent typing and nobody was sent anything for it.
C21_Witness ==
    \E h, g \in Handlers :
        /\ hs[h].kind = "typing" /\ hs[h].conn = "s1"
        /\ hs[h].arg = Value("number", "1")
        /\ outbox["s2"] # <<>> /\ outbox["s2"][1] = Event("typing", TRUE, h)
        /\ outbox["s1"] = <<>>
        /\ hs[g].kind = "typing" /\ hs[g].conn = "s3"
        /\ currentSession["s3"] = NoSession
        /\ \A k \in Conns : ~HasEvent(outbox[k], "typing", g)

\* A disconnect arrives in this step and is handler h.
DisconnectArrives(h) ==
    /\ h = Len(hs) + 1
    /\ h \in DOMAIN hs'
    /\ hs'[h].kind = "disconnect"

\* C22: a disconnect takes the connection out of its transport room and
\* does nothing else: every stored room (roster with the entry of the
\* disconnected participant, content, isActive, lastActivity) is as it was,
\* no room is deleted, and no event is sent to anyone.
C22_DisconnectFrame ==
    [][\A h \in HandlerIds :
          DisconnectArrives(h)
          => LET c == hs'[h].conn
             IN /\ db' = db
                /\ outbox' = outbox
                /\ \A code \in Codes : rooms'[code] = rooms[code] \ {c}
                /\ UNCHANGED <<nextId, cid, name>>]_vars

\* The guest s2 has disconnected: it is out of the transport room, its
\* roster entry is still stored, the room is active and the creator was
\* sent nothing.
C22_Witness ==
    /\ \E h \in Handlers : hs[h].kind = "disconnect" /\ hs[h].conn = "s2"
    /\ "s2" \notin rooms[RoomA] /\ "s1" \in rooms[RoomA]
    /\ db[1].exists /\ db[1].isActive
    /\ IndexOf(db[1].joinedUsers, cid["s2"]) # 0
    /\ outbox["s1"] = <<>>

\* The handler of a leave:session from a bound connection ends in this
\* step.
LeaveEnds(h) ==
    /\ h \in DOMAIN hs
    /\ hs[h].kind = "leave" /\ hs[h].pc \in {"find", "save"}
    /\ hs'[h].pc = "done"

\* The snapshots handler h has sent in the outbox ob.
SnapshotsBy(ob, h) ==
    {i \in 1..Len(ob) : ob[i].type = "participants:update" /\ ob[i].by = h}

\* C23: when the handler of a leave:session from a bound connection ends,
\* the leaver has been sent nothing by it and is unbound; if the room
\* record is retained, every remaining member has been sent a
\* participants:update without the leaver; if the leave deleted the
\* record, nobody has been sent a snapshot.
C23_LeaveEvents ==
    [][\A h \in HandlerIds :
          LeaveEnds(h)
          => LET c == hs[h].conn
                 code == currentSession[c]
                 retained == DocByCode(code).exists
             IN /\ outbox'[c] = outbox[c]
                /\ currentSession'[c] = NoSession
                /\ \A k \in Members(rooms, code) \ {c} :
                      IF retained
                      THEN /\ SnapshotsBy(outbox'[k], h) # {}
                           /\ \A i \in SnapshotsBy(outbox'[k], h) :
                                 \A j \in 1..Len(outbox'[k][i].val.participants) :
                                    outbox'[k][i].val.participants[j].clientId
                                       # cid[c]
                      ELSE outbox'[k] = outbox[k]]_vars

\* The handler of a user:updateName from a bound connection ends in this
\* step.
RenameEnds(h) ==
    /\ h \in DOMAIN hs
    /\ hs[h].kind = "rename" /\ hs[h].pc \in {"find", "save"}
    /\ hs'[h].pc = "done"

\* The rename handler found no active room, or found one whose roster has
\* no entry for the caller's clientId.
NoParticipant(h) ==
    \/ hs[h].id = 0
    \/ /\ hs[h].doc.creatorClientId # cid[hs[h].conn]
       /\ IndexOf(hs[h].doc.joinedUsers, cid[hs[h].conn]) = 0

\* The names the stored rooms hold.
StoredNames(store) ==
    [i \in DocIds |->
        <<store[i].creatorName,
          [j \in 1..Len(store[i].joinedUsers) |-> store[i].joinedUsers[j].name]>>]

\* C24: a user:updateName whose room is absent or inactive, or whose
\* caller has no roster entry in the room, ends with an acknowledgement
\* with ok false and with no participants:update sent by it, and its save
\* changes no stored participant name.
C24_RenameNotFound ==
    [][\A h \in HandlerIds :
          /\ (RenameEnds(h) /\ NoParticipant(h))
             => /\ \E i \in 1..Len(outbox'[hs[h].conn]) :
                      /\ outbox'[hs[h].conn][i].type = "ack"
                      /\ outbox'[hs[h].conn][i].by = h
                      /\ ~outbox'[hs[h].conn][i].val.ok
                /\ \A k \in Conns : SnapshotsBy(outbox'[k], h) = {}
          /\ (StoreSave(h) /\ hs[h].kind = "rename" /\ NoParticipant(h))
             => StoredNames(db') = StoredNames(db)]_vars

\* Handler h is a user:updateName from a bound connection that ended
\* because no active room was found.
RenameNoRoom(h) ==
    /\ hs[h].kind = "rename" /\ hs[h].pc = "done"
    /\ hs[h].code # NoSession /\ hs[h].id = 0

\* Handler h is a user:updateName from an unbound connection.
RenameUnbound(h) ==
    hs[h].kind = "rename" /\ hs[h].code = NoSession

\* C25: a connection whose user:updateName intents have all failed, one of
\* them because its room was not found among the active rooms, has the
\* display name it had before (the default name it connected with).
C25_FailedRenameKeepsName ==
    \A c \in Conns :
        (/\ \E h \in Handlers : hs[h].conn = c /\ RenameNoRoom(h)
         /\ \A h \in Handlers :
               (hs[h].conn = c /\ hs[h].kind = "rename")
               => RenameNoRoom(h) \/ RenameUnbound(h))
        => name[c] = createDefaultName(c)

\* C26: a finished handler whose store operation failed has sent its own
\* connection an error event or an acknowledgement with ok false.
C26_StoreFailureReported ==
    \A h \in Handlers :
        (hs[h].pc = "done" /\ hs[h].err)
        => \E i \in Errors(outbox[hs[h].conn]) : outbox[hs[h].conn][i].by = h

\* Handler h got invalid input: a content:update whose payload is not a
\* string, or a user:updateName whose name is empty once trimmed.
InvalidInput(h) ==
    \/ hs[h].kind = "update" /\ ~IsString(hs[h].raw)
    \/ hs[h].kind = "rename" /\ trim(hs[h].raw) = <<>>

\* C27: a handler of invalid input that has finished has sent its own
\* connection an error event or an acknowledgement with ok false, and no
\* step of such a handler changes a stored room, a transport room, a
\* binding or a display name.
C27_InvalidInputReported ==
    /\ [](\A h \in Handlers :
            (InvalidInput(h) /\ hs[h].pc = "done")
            => \E i \in Errors(outbox[hs[h].conn]) :
                  outbox[hs[h].conn][i].by = h)
    /\ [][\A h \in HandlerIds :
            (StepOf(h) /\ InvalidInput(h)')
            => UNCHANGED <<db, rooms, currentSession, name>>]_vars

\* A join:session handler completes successfully in this step.
JoinCompletes(h) ==
    /\ h \in DOMAIN hs
    /\ hs[h].kind = "join" /\ hs[h].pc = "save" /\ ~hs[h].err
    /\ hs'[h].pc = "done"

\* The events appended to connection k's outbox in this step.
NewEvents(k) == SubSeq(outbox'[k], Len(outbox[k]) + 1, Len(outbox'[k]))

\* C28: a successful join:session sends the caller content:sync and then
\* join:success, and then, with n the number of members of the transport
\* room after the join: if n >= 2, user:joined with showPad true and
\* roomSize n to every member and nothing to anyone else; if n < 2,
\* waiting:for:user to the caller and nothing to anyone else.  No
\* user:joined with roomSize below 2 is ever sent.
C28_JoinOutcome ==
    /\ [][\A h \in HandlerIds :
            JoinCompletes(h)
            => LET c == hs[h].conn
                   code == hs[h].code
                   n == Cardinality(rooms'[code])
                   rest(k) == IF k = c THEN SubSeq(NewEvents(k), 3,
                                                   Len(NewEvents(k)))
                              ELSE NewEvents(k)
               IN /\ Len(NewEvents(c)) >= 3
                  /\ NewEvents(c)[1].type = "content:sync"
                  /\ NewEvents(c)[2] = Event("join:success", code, h)
                  /\ \A k \in Conns :
                        IF n >= 2 /\ k \in rooms'[code]
                        THEN /\ rest(k) # <<>>
                             /\ \A i \in 1..Len(rest(k)) :
                                   /\ rest(k)[i].type = "user:joined"
                                   /\ rest(k)[i].val.showPad
                                   /\ rest(k)[i].val.roomSize = n
                        ELSE IF n < 2 /\ k = c
                        THEN /\ Len(rest(k)) = 1
                             /\ rest(k)[1].type = "waiting:for:user"
                        ELSE rest(k) = <<>>]_vars
    /\ [](\A k \in Conns : \A i \in 1..Len(outbox[k]) :
            outbox[k][i].type = "user:joined" => outbox[k][i].val.roomSize >= 2)

\* s2 joined the empty room and was told to wait; then s3 joined and both
\* were sent user:joined with roomSize 2.
C28_Witness ==
    \E h, g \in Handlers :
        /\ hs[h].conn = "s2" /\ hs[g].conn = "s3"
        /\ hs[h].pc = "done" /\ hs[g].pc = "done"
        /\ HasEvent(outbox["s2"], "waiting:for:user", h)
        /\ ~HasEvent(outbox["s2"], "user:joined", h)
        /\ HasJoined(outbox["s2"], g, 2)
        /\ HasJoined(outbox["s3"], g, 2)
        /\ ~HasEvent(outbox["s3"], "waiting:for:user", g)

\* The positions of the content:sync events in the outbox ob.
Syncs(ob) == {i \in 1..Len(ob) : ob[i].type = "content:sync"}

\* C29: once every handler has finished, a connection whose join:session
\* succeeded holds the stored content of its room: the last content:sync
\* it was sent carries the text the store holds for the room.
C29_JoinerCurrent ==
    \A h \in Handlers :
        (/\ AllDone
         /\ hs[h].kind = "join" /\ ~hs[h].err /\ hs[h].id # 0
         /\ currentSession[hs[h].conn] = hs[h].code)
        => LET ob == outbox[hs[h].conn]
           IN /\ Syncs(ob) # {}
              /\ ob[Max(Syncs(ob))].val = DocByCode(hs[h].code).content

\* C30: no step lowers the lastActivity of a stored room: a save of a
\* content change, join, rename or leave leaves it at least as large as it
\* was, in whatever order the saves of concurrent handlers are applied.
C30_ActivityMonotone ==
    [][\A i \in DocIds :
          (db[i].exists /\ db'[i].exists /\ db'[i].code = db[i].code)
          => db'[i].lastActivity >= db[i].lastActivity]_vars

\* The entries of a participant snapshot that carry isCreator true.
CreatorEntries(ps) == {i \in 1..Len(ps) : ps[i].isCreator}

\* The creator's client is not among the guests of the document, and its
\* snapshot has at most one creator entry.
OneCreator(d) ==
    /\ Cardinality(CreatorEntries(getParticipants(d))) <= 1
    /\ \A i \in 1..Len(d.joinedUsers) :
          d.joinedUsers[i].clientId # d.creatorClientId

\* C31: the creatorClientId of a stored room never changes; every stored
\* room, and every copy of one a handler holds, has at most one snapshot
\* entry with isCreator true and no guest with the creator's clientId.
C31_OneCreator ==
    /\ [](\A i \in DocIds : db[i].exists => OneCreator(db[i]))
    /\ [](\A h \in Handlers : hs[h].doc.exists => OneCreator(hs[h].doc))
    /\ [][\A i \in DocIds :
             (db[i].exists /\ db'[i].exists)
             => db'[i].creatorClientId = db[i].creatorClientId]_vars

\* A second connection of the creator's client has joined the room that
\* already held a guest: the creator entry is rebound to it.
C31_Witness ==
    \E h \in Handlers :
        /\ hs[h].kind = "join" /\ hs[h].pc = "done" /\ ~hs[h].err
        /\ hs[h].conn = "s3" /\ hs[h].id # 0
        /\ db[hs[h].id].exists
        /\ db[hs[h].id].creatorSocketId = "s3"
        /\ db[hs[h].id].creatorClientId = cid["s3"]
        /\ db[hs[h].id].joinedUsers # <<>>

\* The step is a step of an HTTP request handler: one arrives, or one that
\* is in flight moves on.
RequestStep ==
    \/ Len(hs') > Len(hs) /\ hs'[Len(hs')].conn = Http
    \/ \E h \in Handlers : hs[h].conn = Http /\ hs'[h] # hs[h]

\* C32: a step of GET /health, GET /api/config or GET /api/stats changes no
\* room record, roster or content, no transport room, no binding, no name,
\* no event sent and no handler of an intent in flight.
C32_RequestsReadOnly ==
    [][RequestStep =>
          /\ UNCHANGED <<db, nextId, rooms, currentSession, cid, name, outbox,
                         sessionContent>>
          /\ \A h \in Handlers : hs[h].conn # Http => hs'[h] = hs[h]]_vars

\* GET /api/stats has answered with the one active session while an intent
\* that arrived before it is still in flight.
C32_Witness ==
    \E h \in Handlers :
        /\ hs[h].kind = "stats" /\ hs[h].pc = "done"
        /\ hs[h].res.activeSessions = 1
        /\ \E k \in 1..(h - 1) : hs[k].conn # Http /\ hs[k].pc # "done"

\* The stored rooms whose roster names the socket c.
RostersWith(store, c) ==
    {i \in DocIds :
        /\ store[i].exists
        /\ \E p \in 1..Len(getParticipants(store[i])) :
              getParticipants(store[i])[p].socketId = c}

\* C33: a connection that has disconnected is a member of no transport
\* room, and no step adds it to the roster of a stored room, also when a
\* join:session or create:session handler of it resumes after the
\* disconnect.
C33_DisconnectVoids ==
    /\ [](\A c \in Conns :
             ~Live(c) => \A code \in Codes : c \notin rooms[code])
    /\ [][\A c \in Conns :
             ~Live(c) => RostersWith(db', c) \subseteq RostersWith(db, c)]_vars

\* C34: the client shows the typing pad only when it has handled a
\* user:joined event with roomSize >= 2 and showPad true for the session it
\* is in.
C34_PadNeedsPeer ==
    \A c \in Conns :
        client[c].showTypingPad
        => \E i \in 1..client[c].handled :
              /\ outbox[c][i].type = "user:joined"
              /\ outbox[c][i].val.roomSize >= 2
              /\ outbox[c][i].val.showPad
              /\ outbox[c][i].val.code = client[c].connectionCode

\* The content:update handlers of this run for the room.
UpdatesOf(code) ==
    {h \in Handlers : hs[h].kind = "update" /\ hs[h].code = code}

\* The room has been typed into: before the run (room A) or in it.
Edited(code) == code = <<"A">> \/ UpdatesOf(code) # {}

\* The text of the last content:update made to the room.
LastUpdate(code) ==
    IF UpdatesOf(code) # {} THEN hs[Max(UpdatesOf(code))].arg ELSE Typed

\* C35: in the in-memory relay, a join:session into a room that has been
\* typed into and that every member has left or been disconnected from is
\* answered with content:sync carrying the text of the last content:update
\* made to the room.
C35_ContentSurvives ==
    [][\A code \in Codes :
          LET h == Len(hs') IN
          (/\ Len(hs') = Len(hs) + 1
           /\ hs'[h].kind = "join" /\ hs'[h].code = code
           /\ rooms[code] = {} /\ Edited(code))
          => \E i \in 1..Len(outbox'[hs'[h].conn]) :
                /\ outbox'[hs'[h].conn][i].by = h
                /\ outbox'[hs'[h].conn][i].type = "content:sync"
                /\ outbox'[hs'[h].conn][i].val = LastUpdate(code)]_vars

\* The typing events the client has emitted, in order.
TypingSent(c) ==
    SelectSeq(client[c].sent, LAMBDA m : m.type = "typing")

\* true, false, true, ...
Alternates(seq) ==
    \A i \in 1..Len(seq) :
        seq[i].arg = Value("boolean", IF i % 2 = 1 THEN "true" ELSE "false")

\* The last typing event the client has emitted is typing(flag).
LastTyping(c, flag) ==
    /\ TypingSent(c) # <<>>
    /\ TypingSent(c)[Len(TypingSent(c))].arg = Value("boolean", flag)

\* C36: the typing events a client emits alternate true, false, true, ...
\* starting with true; at most one auto-clear timer is pending; and a
\* typing(true) is followed by a typing(false) in the end.
C36_TypingDebounce ==
    /\ [](\A c \in Conns :
             /\ Alternates(TypingSent(c))
             /\ Cardinality(client[c].timers) <= 1)
    /\ \A c \in Conns : LastTyping(c, "true") ~> LastTyping(c, "false")

\* Two bursts of typing: an edit, a second edit that replaces the timer of
\* the first, the timer running out, and a third edit.
C36_Witness ==
    /\ Len(TypingSent("s1")) = 3
    /\ client["s1"].typingTimeoutRef = 3
    /\ client["s1"].timers = {3}

\* No handler of the connection is in flight.
Quiet(c) == \A h \in Handlers : hs[h].conn = c => hs[h].pc = "done"

\* C37: a connection that is open and has no handler in flight is bound
\* to a room exactly when its socket is a member of that transport room,
\* and it is a member of no other; so also after a join:session or
\* create:session that failed on a store error.
C37_BindingAgrees ==
    \A c \in Conns :
        (Live(c) /\ Quiet(c))
        => /\ currentSession[c] # NoSession => c \in rooms[currentSession[c]]
           /\ \A code \in Codes : c \in rooms[code] => currentSession[c] = code

\* The events of this type that the handler h has sent to the connection.
Deliveries(c, h, type) ==
    {i \in 1..Len(outbox[c]) :
        outbox[c][i].by = h /\ outbox[c][i].type = type}

\* C38: a handler's room-wide notification, user:joined or
\* participants:update, reaches a connection once at most.
C38_NotifiedOnce ==
    \A c \in Conns : \A h \in Handlers :
        \A type \in {"user:joined", "participants:update"} :
            Cardinality(Deliveries(c, h, type)) <= 1

\* The clientIds of a participant list.
ClientsOf(ps) == {ps[i].clientId : i \in 1..Len(ps)}

\* C39: every user:joined event with showPad true carries a participant
\* list with two distinct clientIds at least.
C39_TwoClients ==
    \A c \in Conns : \A i \in 1..Len(outbox[c]) :
        (outbox[c][i].type = "user:joined" /\ outbox[c][i].val.showPad)
        => Cardinality(ClientsOf(outbox[c][i].val.participants)) >= 2

\* The step is one of a join:session or create:session handler h whose
\* connection is bound to the room `old`, another room than the one the
\* handler works on.
LeavesFor(h, old) ==
    /\ StepOf(h)
    /\ hs'[h].kind \in {"join", "create"}
    /\ currentSession[hs'[h].conn] = old
    /\ hs'[h].code # old

\* C40: a step of a join:session or create:session handler of a connection
\* bound to another room leaves the record of that room as it is, takes
\* from its transport room nothing but the caller's socket, and sends no
\* participants:update.
C40_ImplicitLeaveFrame ==
    [][\A h \in HandlerIds : \A old \in Codes :
          LeavesFor(h, old)
          => /\ \A i \in DocIds :
                   (db[i].exists /\ db[i].code = old) => db'[i] = db[i]
             /\ rooms'[old] \subseteq rooms[old]
             /\ rooms[old] \ rooms'[old] \subseteq {hs'[h].conn}
             /\ \A k \in Conns :
                   Deliveries(k, h, "participants:update") = {}]_vars

\* The creator of room A, which no guest ever joined, has created room B:
\* it is bound to B and out of the transport room A, and the record of A is
\* active and names it as before.
C40_Witness ==
    \E h \in Handlers :
        /\ hs[h].kind = "create" /\ hs[h].pc = "done" /\ ~hs[h].err
        /\ hs[h].conn = "s1"
        /\ currentSession["s1"] = <<"B">>
        /\ "s1" \notin rooms[RoomA]
        /\ DocByCode(RoomA) = Created("s1")

====
